---- MODULE Spec2Model ----
(***************************************************************************)
(* A model of the pooled data-access layer of                             *)
(* "DAO Pattern/data_access_object.py".                                    *)
(*                                                                         *)
(*   SpecSeq   one caller running the CRUD operations one after another:   *)
(*             what each operation does to the store and what it returns.  *)
(*   SpecConc  the session life cycle of concurrent operations: the pool,  *)
(*             _run_in_session, _submit_background and its _runner.        *)
(*   SpecExec  threads racing through _get_bg_executor.                    *)
(* and of the observable dictionary of "observable_dict.py" (SpecDict and  *)
(* the specifications after it).                                           *)
(***************************************************************************)
EXTENDS Integers, Sequences, FiniteSets, TLC

\* SpecSeq: the store, the caller's previous and latest completed call, and
\* whether the caller has mutated the entity the latest call returned.
VARIABLES db, prev, last, mutated
seqVars == <<db, prev, last, mutated>>

\* SpecConc: the sessions checked out of the DAO's pool, the executor's work
\* queue, the background tasks submitted so far, the caller's thread, and the
\* DAO's close().
VARIABLES inUse, queue, tasks, caller, closed
concVars == <<inUse, queue, tasks, caller, closed>>

\* SpecExec: the _bg_executor attribute of each class, the holder of _bg_lock,
\* the executors created so far, and each thread's call of _get_bg_executor.
VARIABLES attr, lock, created, threads
execVars == <<attr, lock, created, threads>>

\* SpecPage: the table a caller pages through, the list call it made, and its
\* calls for the following page and for the page of twice the size.
VARIABLES table, page, following, double
pageVars == <<table, page, following, double>>

\* SpecAlone: a DAO with nothing else running on it: the size of its pool, the
\* store it is used on, a synchronous write made on that store, and the
\* background variant of the same write made on the same store.
VARIABLES pool, base, sync, bg
aloneVars == <<pool, base, sync, bg>>

\* SpecRace: background writes racing on one store: the store, the writes the
\* caller submitted, the executor's queue, and the order in which the writes
\* reached the store.
VARIABLES shared, race, pending, written
raceVars == <<shared, race, pending, written>>

\* SpecSubmit: the load on the executor and the pool, in numbers: the Futures
\* returned to callers, the _runner calls in the executor's queue, the workers
\* waiting for a session, the workers running in a session, the Futures
\* resolved, the sessions held by synchronous calls, and whether a Future was
\* returned while every worker was busy and the pool had no session left.
VARIABLES futures, waiting, starting, inSession, settled, syncHeld, whenBusy
submitVars == <<futures, waiting, starting, inSession, settled, syncHeld, whenBusy>>

\* SpecClose: several DAO instances of one class: the pool of each, the class's
\* background executor and its queue, the instances close() was called on, and
\* the latest operation that ran.
VARIABLES pools, bgExecutor, bgQueue, closedDaos, lastRun
closeVars == <<pools, bgExecutor, bgQueue, closedDaos, lastRun>>

\* SpecDict: an ObservableDict and a plain dict given the same calls: the
\* contents of each, the ObservableDict's callback, and the latest call with
\* what it did to each of the two.
VARIABLES obs, plain, on_change, dcall, pcall
dictVars == <<obs, plain, on_change, dcall, pcall>>

\* SpecCopy: an ObservableDict with a callback and the copy taken of it: the
\* dictionary objects, the one copy() returned, the contents the original and
\* the copy should have given the calls made on each,
\* whether a call on the copy invoked a callback, and which of the two was
\* changed since the copy was taken.
VARIABLES heap, duplicate, expect, heard, since
copyVars == <<heap, duplicate, expect, heard, since>>

\* SpecUpsert: upsert calls running at the same time, each in a session of its
\* own: the rows committed to the store, and each call's position in
\* upsert._write with the session it runs in.
VARIABLES committed, upserters
upsertVars == <<committed, upserters>>

vars == <<seqVars, concVars, execVars, pageVars, aloneVars, raceVars, submitVars, closeVars, dictVars, copyVars, upsertVars>>

\* What the operations of one specification leave alone.
otherThanSeq == <<concVars, execVars, pageVars, aloneVars, raceVars, submitVars, closeVars, dictVars, copyVars, upsertVars>>
otherThanConc == <<seqVars, execVars, pageVars, aloneVars, raceVars, submitVars, closeVars, dictVars, copyVars, upsertVars>>
otherThanExec == <<seqVars, concVars, pageVars, aloneVars, raceVars, submitVars, closeVars, dictVars, copyVars, upsertVars>>
otherThanPage == <<seqVars, concVars, execVars, aloneVars, raceVars, submitVars, closeVars, dictVars, copyVars, upsertVars>>
otherThanAlone == <<seqVars, concVars, execVars, pageVars, raceVars, submitVars, closeVars, dictVars, copyVars, upsertVars>>
otherThanRace == <<seqVars, concVars, execVars, pageVars, aloneVars, submitVars, closeVars, dictVars, copyVars, upsertVars>>
otherThanSubmit == <<seqVars, concVars, execVars, pageVars, aloneVars, raceVars, closeVars, dictVars, copyVars, upsertVars>>
otherThanClose == <<seqVars, concVars, execVars, pageVars, aloneVars, raceVars, submitVars, dictVars, copyVars, upsertVars>>
otherThanDict == <<seqVars, concVars, execVars, pageVars, aloneVars, raceVars, submitVars, closeVars, copyVars, upsertVars>>
otherThanCopy == <<seqVars, concVars, execVars, pageVars, aloneVars, raceVars, submitVars, closeVars, dictVars, upsertVars>>
otherThanUpsert == <<seqVars, concVars, execVars, pageVars, aloneVars, raceVars, submitVars, closeVars, dictVars, copyVars>>

\* ------------------------------------------------------------------ bounds
MaxKey == 2
MaxVal == 2
MaxPage == 1
\* max_connections of the DAO under test, and the calls made on it (synchronous
\* calls and background submissions together).
PoolMax == 2
MaxOps == 2
\* The threads that call _get_bg_executor.
NumThreads == 2
\* The fire-and-forget calls made while the load is counted: more than the
\* executor has workers.
MaxSubmit == 6

\* ------------------------------------------------------------------ data
\* Python's None, as a column value (NULL) and as "no primary key yet".
Null == 0
\* A keyword argument that **fields does not name.
Unset == -1

Keys == 1..MaxKey
Vals == 1..MaxVal

\* A row of the model's table: the primary key "id" and a data column "a".
Row(id, a) == [id |-> id, a |-> a]
NoRow == Row(Null, Null)

\* **fields of create: any subset of the columns, the primary key included.
FieldMaps == [id : Keys \cup {Unset}, a : Vals \cup {Unset}]
NoFields == [id |-> Unset, a |-> Unset]

\* The relational store: for each key the row stored under it, or NoRow.
EmptyStore == [k \in Keys |-> NoRow]
Present(store, k) == k \in Keys /\ store[k].id = k

\* ------------------------------------------------------------------ session
\* One unit of work over the store: the object the operation works on (obj),
\* its state in the session (st), the key it is stored under (pk), whether it
\* has unflushed attribute changes (dirty), the exception in flight (exc), the
\* session calls made so far (trace) and the value the callable returned.
\* rows are the objects a query loaded, live the positions among them that are
\* still in the session.
NoRet == [kind |-> "unset", row |-> NoRow, rows |-> <<>>]
Session(store) ==
    [db |-> store, obj |-> NoRow, st |-> "none", pk |-> Null, dirty |-> FALSE,
     rows |-> <<>>, live |-> {},
     exc |-> "none", trace |-> <<>>, ret |-> NoRet]

Step(s, name) == [s EXCEPT !.trace = Append(@, name)]
Raise(s, e) == [s EXCEPT !.exc = e]
Attached(s) == s.st \in {"pending", "persistent", "deleted"} \/ s.live # {}

\* session.get(model, id_value): the row stored under the key, or None.
session_get(s, k) ==
    IF s.exc # "none" THEN s
    ELSE IF Present(s.db, k)
         THEN [Step(s, "get") EXCEPT !.obj = s.db[k], !.st = "persistent", !.pk = k]
         ELSE [Step(s, "get") EXCEPT !.obj = NoRow, !.st = "none", !.pk = Null]

\* self.model(**fields): a transient object; columns not named are None.
Model(s, fields) ==
    IF s.exc # "none" THEN s
    ELSE [Step(s, "construct") EXCEPT
            !.obj = Row(IF fields.id = Unset THEN Null ELSE fields.id,
                        IF fields.a = Unset THEN Null ELSE fields.a),
            !.st = "transient"]

\* session.add(row)
session_add(s) ==
    IF s.exc # "none" THEN s
    ELSE [Step(s, "add") EXCEPT !.st = IF s.st = "transient" THEN "pending" ELSE @]

\* for key, value in fields.items(): setattr(row, key, value)
setattr_fields(s, fields) ==
    IF s.exc # "none" THEN s
    ELSE [Step(s, "setattr") EXCEPT
            !.obj = Row(IF fields.id = Unset THEN s.obj.id ELSE fields.id,
                        IF fields.a = Unset THEN s.obj.a ELSE fields.a),
            !.dirty = (s.st = "persistent")]

\* session.delete(row)
session_delete(s) ==
    IF s.exc # "none" THEN s
    ELSE [Step(s, "delete") EXCEPT !.st = IF s.st = "persistent" THEN "deleted" ELSE @]

\* session.flush(): INSERT the pending object (the store generates the key gen
\* when the object has none), UPDATE the dirty one, DELETE the deleted one. A
\* key already in use is rejected by the store.
session_flush(s, gen) ==
    IF s.exc # "none" THEN s
    ELSE CASE s.st = "pending" ->
                LET id == IF s.obj.id = Null THEN gen ELSE s.obj.id
                    row == [s.obj EXCEPT !.id = id]
                IN  IF Present(s.db, id)
                    THEN Raise(Step(s, "flush"), "ConstraintViolation")
                    ELSE [Step(s, "flush") EXCEPT
                            !.db = [s.db EXCEPT ![id] = row], !.obj = row,
                            !.st = "persistent", !.pk = id]
           [] s.st = "persistent" /\ s.dirty ->
                IF s.obj.id # s.pk /\ Present(s.db, s.obj.id)
                THEN Raise(Step(s, "flush"), "ConstraintViolation")
                ELSE [Step(s, "flush") EXCEPT
                        !.db = [[s.db EXCEPT ![s.pk] = NoRow] EXCEPT ![s.obj.id] = s.obj],
                        !.pk = s.obj.id, !.dirty = FALSE]
           [] s.st = "deleted" ->
                [Step(s, "flush") EXCEPT
                    !.db = [s.db EXCEPT ![s.pk] = NoRow], !.st = "gone"]
           [] OTHER -> Step(s, "flush")

\* session.refresh(row): reload the object from its stored row.
session_refresh(s) ==
    IF s.exc # "none" THEN s
    ELSE IF s.st = "persistent"
         THEN [Step(s, "refresh") EXCEPT !.obj = s.db[s.pk], !.dirty = FALSE]
         ELSE Raise(Step(s, "refresh"), "InvalidRequestError")

\* session.expunge(row): the object leaves the session.
session_expunge(s) ==
    IF s.exc # "none" THEN s
    ELSE IF s.st \in {"pending", "persistent", "deleted"}
         THEN [Step(s, "expunge") EXCEPT !.st = "detached"]
         ELSE Raise(Step(s, "expunge"), "InvalidRequestError")

\* return row / return None / return True / return False
ReturnRow(s) ==
    IF s.exc # "none" THEN s
    ELSE [Step(s, "return") EXCEPT !.ret = [kind |-> "entity", row |-> s.obj, rows |-> <<>>]]
ReturnNone(s) ==
    IF s.exc # "none" THEN s
    ELSE [Step(s, "return") EXCEPT !.ret = [kind |-> "none", row |-> NoRow, rows |-> <<>>]]
ReturnBool(s, b) ==
    IF s.exc # "none" THEN s
    ELSE [Step(s, "return") EXCEPT
            !.ret = [kind |-> IF b THEN "true" ELSE "false", row |-> NoRow, rows |-> <<>>]]
\* return rows
ReturnRows(s) ==
    IF s.exc # "none" THEN s
    ELSE [Step(s, "return") EXCEPT !.ret = [kind |-> "list", row |-> NoRow, rows |-> s.rows]]

\* ------------------------------------------------------------------ queries
Range(q) == {q[i] : i \in 1..Len(q)}
Min(x, y) == IF x <= y THEN x ELSE y

\* The orders in which the store may hand out its rows when none is asked for.
StoreOrders == {p \in [1..MaxKey -> Keys] : \A i, j \in 1..MaxKey : p[i] = p[j] => i = j}

\* session.query(model): the stored rows, in the store's order.
session_query(s, order) ==
    LET IsPresent(k) == Present(s.db, k)
        ks == SelectSeq(order, IsPresent)
    IN  [i \in 1..Len(ks) |-> s.db[ks[i]]]

\* q.filter_by(**filters): the rows equal to every named value.
filter_by(q, filters) ==
    LET Matches(r) == filters.id \in {Unset, r.id} /\ filters.a \in {Unset, r.a}
    IN  SelectSeq(q, Matches)

\* q.order_by(order_by), for an order on the primary key.
OrderSpecs == {"id", "id desc"}
order_by(q, spec) ==
    LET Before(x, y) == IF spec = "id" THEN x.id < y.id ELSE x.id > y.id
    IN  [i \in 1..Len(q) |->
            CHOOSE r \in Range(q) : Cardinality({x \in Range(q) : Before(x, r)}) = i - 1]

\* if offset > 0: q = q.offset(offset)
q_offset(q, offset) == IF offset > 0 THEN SubSeq(q, offset + 1, Len(q)) ELSE q
\* Mutant of q_limit: the limit is applied whatever its sign.
q_limit_always(q, limit) == SubSeq(q, 1, Min(limit, Len(q)))

\* if limit > 0: q = q.limit(limit)
q_limit(q, limit) == IF limit > 0 THEN SubSeq(q, 1, Min(limit, Len(q))) ELSE q

\* rows = list(q.all()): the rows are loaded into the session.
q_all(s, q) ==
    IF s.exc # "none" THEN s
    ELSE [Step(s, "all") EXCEPT !.rows = q, !.live = 1..Len(q)]

\* for row in rows: session.expunge(row)
RECURSIVE expunge_rows(_, _)
expunge_rows(s, i) ==
    IF s.exc # "none" \/ i > Len(s.rows) THEN s
    ELSE expunge_rows([Step(s, "expunge") EXCEPT !.live = @ \ {i}], i + 1)

\* ------------------------------------------------------------------ callables
\* Mutant of get_op: the row is returned without being expunged.
get_op_no_expunge(s, k) ==
    LET s1 == session_get(s, k)
    IN  IF s1.st = "persistent" THEN ReturnRow(s1) ELSE ReturnNone(s1)

\* get._op: session.get, expunge when found, return the row.
get_op(s, k) ==
    LET s1 == session_get(s, k)
    IN  IF s1.st = "persistent" THEN ReturnRow(session_expunge(s1)) ELSE ReturnNone(s1)

\* Mutant of query_pk_first: the filter on the primary key is left out, so
\* the first row of the table is the result.
query_first(s, k) ==
    IF s.exc # "none" THEN s
    ELSE LET hits == {j \in Keys : Present(s.db, j)}
         IN  IF hits # {}
             THEN LET j == CHOOSE h \in hits : \A o \in hits : h <= o
                  IN  [Step(s, "query") EXCEPT !.obj = s.db[j], !.st = "persistent", !.pk = j]
             ELSE [Step(s, "query") EXCEPT !.obj = NoRow, !.st = "none", !.pk = Null]

\* session.query(model).filter(pk_col == id_value).first()
query_pk_first(s, k) ==
    IF s.exc # "none" THEN s
    ELSE LET hits == {j \in Keys : Present(s.db, j) /\ s.db[j].id = k}
         IN  IF hits # {}
             THEN LET j == CHOOSE h \in hits : \A o \in hits : h <= o
                  IN  [Step(s, "query") EXCEPT !.obj = s.db[j], !.st = "persistent", !.pk = j]
             ELSE [Step(s, "query") EXCEPT !.obj = NoRow, !.st = "none", !.pk = Null]

\* exists._op
exists_op(s, k) ==
    LET s1 == query_pk_first(s, k)
    IN  IF s1.st = "persistent" THEN ReturnRow(session_expunge(s1)) ELSE ReturnNone(s1)

\* list._op
list_op(s, limit, offset, order) ==
    ReturnRows(expunge_rows(
        q_all(s, q_limit(q_offset(session_query(s, order), offset), limit)), 1))

\* list_by._op
list_by_op(s, limit, offset, filters, order) ==
    ReturnRows(expunge_rows(
        q_all(s, q_limit(q_offset(filter_by(session_query(s, order), filters), offset), limit)), 1))

\* list_by_order_by._op
list_by_order_by_op(s, spec, limit, offset, filters, order) ==
    ReturnRows(expunge_rows(
        q_all(s, q_limit(q_offset(order_by(filter_by(session_query(s, order), filters), spec),
                                  offset), limit)), 1))

\* Mutant of create_write: the row is added and expunged, never flushed.
create_write_no_flush(s, fields, gen) ==
    ReturnRow(session_expunge(session_add(Model(s, fields))))

\* create._write: construct, add, flush, refresh, expunge, return.
create_write(s, fields, gen) ==
    ReturnRow(session_expunge(session_refresh(session_flush(session_add(Model(s, fields)), gen))))

\* Mutant of update_write: an absent key is inserted, and a column the fields
\* do not name is reset to None.
update_write_reset(s, k, fields) ==
    LET s1 == session_get(s, k)
        all == [id |-> fields.id, a |-> IF fields.a = Unset THEN Null ELSE fields.a]
    IN  IF s1.st # "persistent"
        THEN ReturnRow(session_expunge(session_refresh(session_flush(
                 session_add(Model(s1, [fields EXCEPT !.id = k])), Null))))
        ELSE ReturnRow(session_expunge(session_refresh(session_flush(setattr_fields(s1, all), Null))))

\* update._write: None when the key is absent; else set the named attributes,
\* flush, refresh, expunge, return.
update_write(s, k, fields) ==
    LET s1 == session_get(s, k)
    IN  IF s1.st # "persistent" THEN ReturnNone(s1)
        ELSE ReturnRow(session_expunge(session_refresh(session_flush(setattr_fields(s1, fields), Null))))

\* row_data = {primary_key_attribute_name: id_value}; row_data.update(fields)
row_data(k, fields) == [fields EXCEPT !.id = IF fields.id = Unset THEN k ELSE fields.id]

\* Mutant of upsert_write: a stored row is overwritten by a new object built
\* from the key and the fields, so a column not named becomes None.
upsert_write_replace(s, k, fields) ==
    LET s1 == session_get(s, k)
    IN  IF s1.st # "persistent"
        THEN ReturnRow(session_expunge(session_refresh(session_flush(
                 session_add(Model(s1, row_data(k, fields))), Null))))
        ELSE ReturnRow(session_expunge(session_refresh(session_flush(
                 setattr_fields(s1, [id |-> row_data(k, fields).id,
                                     a |-> IF fields.a = Unset THEN Null ELSE fields.a]),
                 Null))))

\* Mutant of upsert_write: the row is expunged before it is flushed.
upsert_write_expunge_first(s, k, fields) ==
    LET s1 == session_get(s, k)
    IN  IF s1.st # "persistent"
        THEN ReturnRow(session_refresh(session_flush(session_expunge(
                 session_add(Model(s1, row_data(k, fields)))), Null)))
        ELSE ReturnRow(session_refresh(session_flush(session_expunge(
                 setattr_fields(s1, fields)), Null)))

\* upsert._write: insert a new row built from the key and the fields when the
\* key is absent, else update the existing row.
upsert_write(s, k, fields) ==
    LET s1 == session_get(s, k)
    IN  IF s1.st # "persistent"
        THEN ReturnRow(session_expunge(session_refresh(session_flush(
                 session_add(Model(s1, row_data(k, fields))), Null))))
        ELSE ReturnRow(session_expunge(session_refresh(session_flush(
                 setattr_fields(s1, fields), Null))))

\* Mutant of delete_write: the row is marked deleted but never flushed.
delete_write_no_flush(s, k) ==
    LET s1 == session_get(s, k)
    IN  IF s1.st # "persistent" THEN ReturnBool(s1, FALSE)
        ELSE ReturnBool(session_delete(s1), TRUE)

\* delete._write: False when the key is absent; else delete, flush, True.
delete_write(s, k) ==
    LET s1 == session_get(s, k)
    IN  IF s1.st # "persistent" THEN ReturnBool(s1, FALSE)
        ELSE ReturnBool(session_flush(session_delete(s1), Null), TRUE)

\* create_ff._write: the same steps as create._write, written out again.
create_ff_write(s, fields, gen) ==
    ReturnRow(session_expunge(session_refresh(session_flush(session_add(Model(s, fields)), gen))))

\* delete_ff._write
delete_ff_write(s, k) ==
    LET s1 == session_get(s, k)
    IN  IF s1.st # "persistent" THEN ReturnBool(s1, FALSE)
        ELSE ReturnBool(session_flush(session_delete(s1), Null), TRUE)

\* Mutant of _run_in_session: an exception of fn is caught and None returned.
_run_in_session_swallow(store, s) ==
    [db |-> IF s.exc = "none" THEN s.db ELSE store,
     kind |-> IF s.exc = "none" THEN s.ret.kind ELSE "none",
     row |-> IF s.exc = "none" THEN s.ret.row ELSE NoRow,
     rows |-> IF s.exc = "none" THEN s.ret.rows ELSE <<>>,
     exc |-> "none",
     attached |-> s.exc = "none" /\ s.ret.kind \in {"entity", "list"} /\ Attached(s),
     released |-> TRUE,
     trace |-> Append(s.trace, "release")]

\* _run_in_session on one thread: `with self.session_scope() as session:
\* return fn(session)`. The scope is left on return and on exception alike;
\* leaving it releases the session, keeping the flushed writes on return and
\* discarding them on exception. `s` is the session after fn ran in it.
_run_in_session(store, s) ==
    [db |-> IF s.exc = "none" THEN s.db ELSE store,
     kind |-> IF s.exc = "none" THEN s.ret.kind ELSE "raised",
     row |-> IF s.exc = "none" THEN s.ret.row ELSE NoRow,
     rows |-> IF s.exc = "none" THEN s.ret.rows ELSE <<>>,
     exc |-> s.exc,
     attached |-> s.exc = "none" /\ s.ret.kind \in {"entity", "list"} /\ Attached(s),
     released |-> TRUE,
     trace |-> Append(s.trace, "release")]

\* ------------------------------------------------------------------ SpecSeq
NoCall ==
    [op |-> "none", key |-> Null, fields |-> NoFields, pre |-> EmptyStore,
     post |-> EmptyStore, kind |-> "unset", row |-> NoRow, rows |-> <<>>, exc |-> "none",
     attached |-> FALSE, trace |-> <<>>]

Call(op, k, fields, r) ==
    [op |-> op, key |-> k, fields |-> fields, pre |-> db, post |-> r.db,
     kind |-> r.kind, row |-> r.row, rows |-> r.rows, exc |-> r.exc,
     attached |-> r.attached,
     trace |-> r.trace]

InitSeq ==
    /\ db = EmptyStore
    /\ prev = NoCall
    /\ last = NoCall
    /\ mutated = FALSE

\* The caller's workload: any number of calls whose results the caller drops
\* (last stays NoCall), then one call whose result it keeps (last), which it may
\* follow with a mutation of the returned entity and then with one more call, a
\* get or (after a delete) a second delete; prev is then the first of the two.
Unobserved == last.op = "none"
NoFollowUp == prev.op = "none"

\* A read completes.
Read(op, k, r) ==
    /\ db' = r.db
    /\ prev' = last
    /\ last' = Call(op, k, NoFields, r)
    /\ UNCHANGED <<mutated, otherThanSeq>>

\* A write completes.
Write(op, k, fields, r) ==
    /\ db' = r.db
    /\ \E keep \in BOOLEAN : last' = IF keep THEN Call(op, k, fields, r) ELSE NoCall
    /\ prev' = last
    /\ mutated' = FALSE
    /\ UNCHANGED <<otherThanSeq>>

get ==
    /\ NoFollowUp
    /\ \E k \in Keys : Read("get", k, _run_in_session(db, get_op(Session(db), k)))

exists ==
    /\ Unobserved
    /\ \E k \in Keys : Read("exists", k, _run_in_session(db, exists_op(Session(db), k)))

\* limit and offset: negative, zero and positive.
PageArgs == -1..MaxPage
\* **filters of list_by: equality on any of the columns.
FilterMaps == FieldMaps
\* A query with an order_by does not depend on the order the store would
\* otherwise use: it is run on the store in key order.
KeyOrder == [i \in 1..MaxKey |-> i]

list ==
    /\ Unobserved
    /\ \E limit \in PageArgs, offset \in PageArgs, order \in StoreOrders :
         Read("list", Null,
              _run_in_session(db, list_op(Session(db), limit, offset, order)))

list_by ==
    /\ Unobserved
    /\ \E limit \in PageArgs, offset \in PageArgs, filters \in FilterMaps,
          order \in StoreOrders :
         Read("list_by", Null,
              _run_in_session(db, list_by_op(Session(db), limit, offset, filters, order)))

list_by_order_by ==
    /\ Unobserved
    /\ \E spec \in OrderSpecs, limit \in PageArgs, offset \in PageArgs,
          filters \in FilterMaps :
         Read("list_by_order_by", Null,
              _run_in_session(db, list_by_order_by_op(Session(db), spec, limit, offset,
                                                      filters, KeyOrder)))

create ==
    /\ Unobserved
    /\ \E fields \in FieldMaps :
         \E gen \in (IF fields.id = Unset THEN Keys ELSE {Null}) :
             Write("create", Null, fields,
                   _run_in_session(db, create_write(Session(db), fields, gen)))

\* create_ff with nothing else running: submitted, run by a worker, and the
\* Future resolved; the call recorded is the Future's outcome.
create_ff ==
    /\ Unobserved
    /\ \E fields \in FieldMaps :
         \E gen \in (IF fields.id = Unset THEN Keys ELSE {Null}) :
             Write("create_ff", Null, fields,
                   _run_in_session(db, create_ff_write(Session(db), fields, gen)))

update ==
    /\ Unobserved
    /\ \E k \in Keys, fields \in FieldMaps :
         Write("update", k, fields,
               _run_in_session(db, update_write(Session(db), k, fields)))

upsert ==
    /\ Unobserved
    /\ \E k \in Keys, fields \in FieldMaps :
         Write("upsert", k, fields,
               _run_in_session(db, upsert_write(Session(db), k, fields)))

delete ==
    /\ Unobserved \/ (last.op = "delete" /\ NoFollowUp)
    /\ \E k \in Keys :
         Write("delete", k, NoFields, _run_in_session(db, delete_write(Session(db), k)))

\* The caller assigns an attribute of the entity the latest call returned. An
\* entity still attached to a unit of work carries the change to the store; a
\* detached one is the caller's own copy.
Returned(c) == IF c.kind = "entity" THEN {c.row} ELSE Range(c.rows)
Mutate ==
    /\ Returned(last) # {}
    /\ NoFollowUp
    /\ ~mutated
    /\ \E e \in Returned(last), v \in Vals \cup {Null} :
          /\ v # e.a
          /\ db' = IF last.attached /\ Present(db, e.id)
                   THEN [db EXCEPT ![e.id].a = v]
                   ELSE db
    /\ mutated' = TRUE
    /\ UNCHANGED <<prev, last, otherThanSeq>>

NextSeq ==
    \/ get
    \/ exists
    \/ list
    \/ list_by
    \/ list_by_order_by
    \/ create
    \/ create_ff
    \/ update
    \/ upsert
    \/ delete
    \/ Mutate


\* ------------------------------------------------------------------ claims of SpecSeq
\* What a get of key k returns from a store.
Stored(store, k, c) ==
    IF Present(store, k) THEN c.kind = "entity" /\ c.row = store[k] ELSE c.kind = "none"

\* The row holds every value the field mapping names.
Contains(row, fields) == fields.id \in {Unset, row.id} /\ fields.a \in {Unset, row.a}

\* i is a position of step `name` in the trace.
At(tr, name) == {i \in 1..Len(tr) : tr[i] = name}
\* Every step `x` of the trace comes before every step `y`.
Precedes(tr, x, y) == \A i \in At(tr, x), j \in At(tr, y) : i < j

\* C6: every entity that get, list, list_by, list_by_order_by, exists, create,
\* update and upsert return has left its session before the session is
\* released, so the caller mutating it changes neither the store nor what a
\* later get of the same key returns.
C6_Detached ==
    /\ last.op \in {"get", "list", "list_by", "list_by_order_by", "exists",
                    "create", "update", "upsert"}
         => /\ ~last.attached
            /\ Precedes(last.trace, "expunge", "release")
            /\ last.kind = "entity" => At(last.trace, "expunge") # {}
            /\ last.kind = "list" => Cardinality(At(last.trace, "expunge")) = Len(last.rows)
    /\ last.op # "none" => db = last.post
    /\ mutated /\ last.op = "get" /\ prev.op # "none" => Stored(prev.post, last.key, last)

\* The caller mutated the entity a create returned, and a get of its key
\* then returned the entity as the create had stored it.
C6_Witness ==
    /\ mutated
    /\ prev.op = "create" /\ prev.kind = "entity"
    /\ last.op = "get" /\ last.key = prev.row.id /\ last.row = prev.row

\* C7: a write that returns an entity applies the change, flushes, refreshes,
\* detaches and returns, in that order: no row is detached before the flush or
\* the refresh; and delete flushes before it returns True.
Change == {"add", "setattr", "delete"}
C7_WriteOrder ==
    LET tr == last.trace
    IN  /\ last.op \in {"create", "update", "upsert", "create_ff", "delete"}
             => /\ \A c \in Change : Precedes(tr, c, "flush")
                /\ Precedes(tr, "flush", "refresh")
                /\ Precedes(tr, "refresh", "expunge")
                /\ Precedes(tr, "expunge", "return")
                /\ Precedes(tr, "flush", "return")
        /\ last.op \in {"create", "update", "upsert", "create_ff"} /\ last.kind = "entity"
             => /\ \E c \in Change : At(tr, c) # {}
                /\ \A x \in {"flush", "refresh", "expunge", "return"} : At(tr, x) # {}
        /\ last.op = "delete" /\ last.kind = "true"
             => At(tr, "delete") # {} /\ At(tr, "flush") # {}

\* An upsert of a stored key returned the updated entity.
C7_Witness ==
    /\ last.op = "upsert" /\ last.kind = "entity"
    /\ Present(last.pre, last.key)
    /\ last.trace = <<"get", "setattr", "flush", "refresh", "expunge", "return", "release">>

\* upsert(k, f) was followed by get(k).
UpsertThenGet ==
    /\ prev.op = "upsert"
    /\ last.op = "get" /\ last.key = prev.key

UpsertTotal ==
    /\ prev.exc = "none"
    /\ last.kind = "entity"
    /\ last.row.id = prev.key
    /\ Contains(last.row, prev.fields)
    /\ Present(prev.pre, prev.key) /\ prev.fields.a = Unset
         => last.row.a = prev.pre[prev.key].a
    /\ ~Present(prev.pre, prev.key)
         => prev.post = [prev.pre EXCEPT ![prev.key] = last.row]

\* C8: for every store, key k and field mapping f, upsert(k, f) followed by
\* get(k) returns an entity with primary key k that contains f; a stored row
\* keeps the fields f does not name, and for an absent key exactly one row,
\* with key k, is inserted.
C8_UpsertThenGet == UpsertThenGet => UpsertTotal

\* C8, amended: the same, for a field mapping f that does not give the
\* primary-key attribute a value other than k.
C8_KeyedUpsert ==
    UpsertThenGet /\ prev.fields.id \in {Unset, prev.key} => UpsertTotal

\* An upsert of a stored key that named no data column kept the stored value,
\* and the get after it returned the row.
C8_Witness ==
    /\ UpsertThenGet
    /\ prev.fields = NoFields
    /\ Present(prev.pre, prev.key) /\ prev.pre[prev.key].a # Null
    /\ last.kind = "entity" /\ last.row = prev.pre[prev.key]

\* C9: delete of an absent key returns False, raises nothing and leaves the
\* store as it was; delete of a stored key returns True and removes that row
\* and no other; so the second of two deletes of a key in a row returns False.
C9_Delete ==
    /\ last.op = "delete"
         => /\ last.exc = "none"
            /\ ~Present(last.pre, last.key) => last.kind = "false" /\ last.post = last.pre
            /\ Present(last.pre, last.key)
                 => /\ last.kind = "true"
                    /\ last.post = [last.pre EXCEPT ![last.key] = NoRow]
    /\ prev.op = "delete" /\ last.op = "delete" /\ last.key = prev.key
         => last.kind = "false"

\* A delete returned True and the delete of the same key after it False.
C9_Witness ==
    /\ prev.op = "delete" /\ prev.kind = "true"
    /\ last.op = "delete" /\ last.key = prev.key /\ last.kind = "false"

\* C10: create(fields) followed by get of the returned entity's key returns
\* an entity that holds the fields given and, in the fields not given, what
\* the store generated: the key, and None in the data column.
C10_CreateThenGet ==
    prev.op = "create" /\ prev.kind = "entity" /\ last.op = "get" /\ last.key = prev.row.id
        => /\ last.kind = "entity"
           /\ last.row = prev.row
           /\ Contains(last.row, prev.fields)
           /\ last.row.id \in Keys
           /\ prev.fields.a = Unset => last.row.a = Null

\* A create that named no key got one from the store, and the get of that key
\* returned the created entity.
C10_Witness ==
    /\ prev.op = "create" /\ prev.kind = "entity" /\ prev.fields.id = Unset
    /\ prev.fields.a # Unset
    /\ last.op = "get" /\ last.key = prev.row.id /\ last.row = prev.row

\* The row with the values the field mapping names put in place of its own.
Updated(row, fields) ==
    Row(IF fields.id = Unset THEN row.id ELSE fields.id,
        IF fields.a = Unset THEN row.a ELSE fields.a)

\* C11: update of an absent key returns None, raises nothing and leaves the
\* store as it was, inserting nothing; update of a stored key returns that
\* row with the named fields changed and no other, and the store differs from
\* the one before in that row alone.
C11_UpdateFrame ==
    last.op = "update" =>
        /\ ~Present(last.pre, last.key)
             => last.kind = "none" /\ last.exc = "none" /\ last.post = last.pre
        /\ Present(last.pre, last.key) /\ last.exc = "none"
             => /\ last.kind = "entity"
                /\ last.row = Updated(last.pre[last.key], last.fields)
                /\ last.post = [[last.pre EXCEPT ![last.key] = NoRow]
                                     EXCEPT ![last.row.id] = last.row]
                /\ \A j \in Keys \ {last.key, last.row.id} : last.post[j] = last.pre[j]
        /\ last.exc # "none" => last.post = last.pre

\* An update of one of two stored rows named the data column alone: the key
\* stayed, the column changed, and the other row is as it was.
C11_Witness ==
    /\ last.op = "update" /\ last.kind = "entity"
    /\ last.fields.id = Unset /\ last.fields.a # Unset
    /\ last.row.id = last.key /\ last.row.a # last.pre[last.key].a
    /\ \E j \in Keys \ {last.key} : Present(last.pre, j) /\ last.post[j] = last.pre[j]

\* C14: exists(key) and get(key) are the same read: on every store and key
\* each returns None when the key is absent and the stored row, detached, when
\* it is present, neither raises and neither changes the store; so a get after
\* an exists of the same key returns what the exists returned.
C14_ExistsAsGet ==
    /\ last.op \in {"get", "exists"}
         => /\ last.exc = "none"
            /\ Stored(last.pre, last.key, last)
            /\ ~last.attached
            /\ last.post = last.pre
    /\ prev.op = "exists" /\ last.op = "get" /\ last.key = prev.key
         => last.kind = prev.kind /\ last.row = prev.row

\* With two rows stored, exists of the second key returned that row and the
\* get of the key after it returned the same.
C14_Witness ==
    /\ prev.op = "exists" /\ prev.kind = "entity" /\ prev.key = MaxKey
    /\ \A j \in Keys : Present(prev.pre, j)
    /\ last.op = "get" /\ last.key = prev.key /\ last.kind = "entity" /\ last.row = prev.row

\* The write names a primary key that another stored row has: the store
\* rejects it.
Rejects(c) ==
    \/ c.op = "create" /\ c.fields.id # Unset /\ Present(c.pre, c.fields.id)
    \/ /\ c.op \in {"update", "upsert"}
       /\ c.fields.id \notin {Unset, c.key} /\ Present(c.pre, c.fields.id)
       /\ c.op = "update" => Present(c.pre, c.key)

Tables ==
    {[k \in Keys |-> IF f[k] = Unset THEN NoRow ELSE Row(k, f[k])] :
        f \in [Keys -> Vals \cup {Null, Unset}]}

NoPage ==
    [op |-> "none", limit |-> 0, offset |-> 0, filters |-> NoFields, spec |-> "none",
     rows |-> <<>>, exc |-> "none", post |-> EmptyStore]

PageCall(op, limit, offset, filters, spec, r) ==
    [op |-> op, limit |-> limit, offset |-> offset, filters |-> filters, spec |-> spec,
     rows |-> r.rows, exc |-> r.exc, post |-> r.db]

InitPage ==
    /\ table = EmptyStore
    /\ page = NoPage
    /\ following = NoPage
    /\ double = NoPage

\* The writes made before the caller starts to page; none is made after.
populate ==
    /\ table = EmptyStore /\ page = NoPage
    /\ table' \in Tables
    /\ UNCHANGED <<page, following, double, otherThanPage>>

\* list(limit=, offset=): the store hands out the rows in an order of its own
\* choosing, the query naming none.
page_list ==
    /\ page = NoPage
    /\ \E limit \in PageArgs, offset \in PageArgs, order \in StoreOrders :
         page' = PageCall("list", limit, offset, NoFields, "none",
                          _run_in_session(table, list_op(Session(table), limit, offset, order)))
    /\ UNCHANGED <<table, following, double, otherThanPage>>

page_list_by ==
    /\ page = NoPage
    /\ \E limit \in PageArgs, offset \in PageArgs, filters \in FilterMaps,
          order \in StoreOrders :
         page' = PageCall("list_by", limit, offset, filters, "none",
                          _run_in_session(table, list_by_op(Session(table), limit, offset,
                                                            filters, order)))
    /\ UNCHANGED <<table, following, double, otherThanPage>>

page_list_by_order_by ==
    /\ page = NoPage
    /\ \E spec \in OrderSpecs, limit \in PageArgs, offset \in PageArgs,
          filters \in FilterMaps :
         page' = PageCall("list_by_order_by", limit, offset, filters, spec,
                          _run_in_session(table, list_by_order_by_op(Session(table), spec, limit,
                                                                     offset, filters, KeyOrder)))
    /\ UNCHANGED <<table, following, double, otherThanPage>>

\* After list(limit=n, offset=m) with n > 0 and m >= 0, the caller asks for the
\* page that follows: list(limit=n, offset=m+n).
Paged == page.op = "list" /\ page.limit > 0 /\ page.offset >= 0
following_page ==
    /\ Paged /\ following = NoPage
    /\ \E order \in StoreOrders :
         following' = PageCall("list", page.limit, page.offset + page.limit, NoFields, "none",
                               _run_in_session(table, list_op(Session(table), page.limit,
                                                              page.offset + page.limit, order)))
    /\ UNCHANGED <<table, page, double, otherThanPage>>

\* ... and for both pages in one call: list(limit=2n, offset=m).
double_page ==
    /\ Paged /\ double = NoPage
    /\ \E order \in StoreOrders :
         double' = PageCall("list", 2 * page.limit, page.offset, NoFields, "none",
                            _run_in_session(table, list_op(Session(table), 2 * page.limit,
                                                           page.offset, order)))
    /\ UNCHANGED <<table, page, following, otherThanPage>>

NextPage ==
    \/ populate
    \/ page_list
    \/ page_list_by
    \/ page_list_by_order_by
    \/ following_page
    \/ double_page

\* ------------------------------------------------------------------ claims of SpecPage
NoDuplicates(q) == Cardinality(Range(q)) = Len(q)

\* C12: on a table no write changes between the calls, list(limit=n, offset=m)
\* followed by list(limit=n, offset=m+n) has the members of
\* list(limit=2n, offset=m), none twice and none missing.
C12_Pagination ==
    Paged /\ following.op = "list" /\ double.op = "list"
        => LET both == page.rows \o following.rows
           IN  /\ Range(both) = Range(double.rows)
               /\ NoDuplicates(both)
               /\ Len(both) = Len(double.rows)

\* The rows of the table that the filters of the call select.
Matching(c) ==
    {r \in {table[k] : k \in {j \in Keys : Present(table, j)}} :
        c.filters.id \in {Unset, r.id} /\ c.filters.a \in {Unset, r.a}}
Skipped(c) == IF c.offset > 0 THEN c.offset ELSE 0
Left(c) ==
    IF Cardinality(Matching(c)) > Skipped(c) THEN Cardinality(Matching(c)) - Skipped(c) ELSE 0
Expected(c) == IF c.limit > 0 THEN Min(c.limit, Left(c)) ELSE Left(c)

\* C13: in list, list_by and list_by_order_by a limit <= 0 is no limit and an
\* offset <= 0 skips nothing, so with both every (selected) row is returned; a
\* positive offset skips that many rows and a positive limit returns at most
\* that many of the rest; with an order, the rows returned are those at the
\* positions after the skipped ones.
C13_LimitOffset ==
    page.op # "none" =>
        /\ page.exc = "none"
        /\ Range(page.rows) \subseteq Matching(page)
        /\ NoDuplicates(page.rows)
        /\ Len(page.rows) = Expected(page)
        /\ page.limit <= 0 /\ page.offset <= 0 => Range(page.rows) = Matching(page)
        /\ page.limit > 0 => Len(page.rows) <= page.limit
        /\ page.op = "list_by_order_by"
             => \A i \in 1..Len(page.rows) :
                   Cardinality({r \in Matching(page) :
                                   IF page.spec = "id" THEN r.id < page.rows[i].id
                                   ELSE r.id > page.rows[i].id}) = Skipped(page) + i - 1

\* list(limit=-1, offset=-1) returned each of the two or more rows stored.
C13_Witness ==
    /\ page.op = "list" /\ page.limit = -1 /\ page.offset = -1
    /\ Len(page.rows) >= 2
    /\ Range(page.rows) = Matching(page)

\* ------------------------------------------------------------------ SpecAlone
NoWrite ==
    [op |-> "none", key |-> Null, fields |-> NoFields, gen |-> Null, post |-> EmptyStore,
     kind |-> "unset", row |-> NoRow, exc |-> "none", logs |-> 0]

\* A write that completed, or a Future that resolved: what it returned or
\* raised, the store it left, and the records _runner logged.
WriteCall(op, k, fields, gen, r, logs) ==
    [op |-> op, key |-> k, fields |-> fields, gen |-> gen, post |-> r.db,
     kind |-> r.kind, row |-> r.row, exc |-> r.exc, logs |-> logs]

InitAlone ==
    /\ pool = 0
    /\ base = EmptyStore
    /\ sync = NoWrite
    /\ bg = NoWrite

\* DataAccessObject(max_connections=...), on a store that earlier use has
\* filled.
construct ==
    /\ pool = 0
    /\ pool' \in 1..PoolMax
    /\ base' \in Tables
    /\ UNCHANGED <<sync, bg, otherThanAlone>>

Constructed == pool > 0

sync_create ==
    /\ Constructed /\ sync = NoWrite
    /\ \E fields \in FieldMaps :
         \E gen \in (IF fields.id = Unset THEN Keys ELSE {Null}) :
             sync' = WriteCall("create", Null, fields, gen,
                               _run_in_session(base, create_write(Session(base), fields, gen)), 0)
    /\ UNCHANGED <<pool, base, bg, otherThanAlone>>

sync_update ==
    /\ Constructed /\ sync = NoWrite
    /\ \E k \in Keys, fields \in FieldMaps :
         sync' = WriteCall("update", k, fields, Null,
                           _run_in_session(base, update_write(Session(base), k, fields)), 0)
    /\ UNCHANGED <<pool, base, bg, otherThanAlone>>

sync_upsert ==
    /\ Constructed /\ sync = NoWrite
    /\ \E k \in Keys, fields \in FieldMaps :
         sync' = WriteCall("upsert", k, fields, Null,
                           _run_in_session(base, upsert_write(Session(base), k, fields)), 0)
    /\ UNCHANGED <<pool, base, bg, otherThanAlone>>

sync_delete ==
    /\ Constructed /\ sync = NoWrite
    /\ \E k \in Keys :
         sync' = WriteCall("delete", k, NoFields, Null,
                           _run_in_session(base, delete_write(Session(base), k)), 0)
    /\ UNCHANGED <<pool, base, bg, otherThanAlone>>

\* self.update(...) / self.upsert(...) called while a session of the DAO is
\* held: the call opens a session of its own, which a pool of fewer than two
\* cannot give. `r` is what the call does once it has its session.
PoolExhausted(store) ==
    [db |-> store, kind |-> "raised", row |-> NoRow, rows |-> <<>>, exc |-> "PoolExhausted",
     attached |-> FALSE, released |-> TRUE, trace |-> <<>>]
nested_call(m, store, r) == IF m >= 2 THEN r ELSE PoolExhausted(store)

\* lambda session: self.update(id_value, **fields), run in the session s that
\* _runner's _run_in_session opened: s is not used, and the lambda returns or
\* raises what the call did.
ff_lambda(s, inner) ==
    [s EXCEPT !.db = inner.db, !.exc = inner.exc,
              !.ret = [kind |-> inner.kind, row |-> inner.row, rows |-> inner.rows]]

\* _runner with nothing else running: the outcome of _run_in_session(fn) is
\* the Future's, logged once when it is an exception.
Logged(r) == IF r.exc # "none" THEN 1 ELSE 0

alone_create_ff ==
    /\ sync.op = "create" /\ bg = NoWrite
    /\ LET r == _run_in_session(base, create_ff_write(Session(base), sync.fields, sync.gen))
       IN  bg' = WriteCall("create_ff", Null, sync.fields, sync.gen, r, Logged(r))
    /\ UNCHANGED <<pool, base, sync, otherThanAlone>>

alone_update_ff ==
    /\ sync.op = "update" /\ bg = NoWrite
    /\ LET inner == nested_call(pool, base,
                        _run_in_session(base, update_write(Session(base), sync.key, sync.fields)))
           r == _run_in_session(base, ff_lambda(Session(base), inner))
       IN  bg' = WriteCall("update_ff", sync.key, sync.fields, Null, r, Logged(r))
    /\ UNCHANGED <<pool, base, sync, otherThanAlone>>

alone_upsert_ff ==
    /\ sync.op = "upsert" /\ bg = NoWrite
    /\ LET inner == nested_call(pool, base,
                        _run_in_session(base, upsert_write(Session(base), sync.key, sync.fields)))
           r == _run_in_session(base, ff_lambda(Session(base), inner))
       IN  bg' = WriteCall("upsert_ff", sync.key, sync.fields, Null, r, Logged(r))
    /\ UNCHANGED <<pool, base, sync, otherThanAlone>>

alone_delete_ff ==
    /\ sync.op = "delete" /\ bg = NoWrite
    /\ LET r == _run_in_session(base, delete_ff_write(Session(base), sync.key))
       IN  bg' = WriteCall("delete_ff", sync.key, NoFields, Null, r, Logged(r))
    /\ UNCHANGED <<pool, base, sync, otherThanAlone>>

NextAlone ==
    \/ construct
    \/ sync_create
    \/ sync_update
    \/ sync_upsert
    \/ sync_delete
    \/ alone_create_ff
    \/ alone_update_ff
    \/ alone_upsert_ff
    \/ alone_delete_ff

\* ------------------------------------------------------------------ claims of SpecAlone
\* C15: run alone on the same store, the Future of create_ff, update_ff,
\* upsert_ff and delete_ff resolves to what create, update, upsert and delete
\* return or raise, and the store is left the same; the entity of a create_ff
\* Future is the row stored under its key.
C15_SameContract ==
    bg.op # "none"
        => /\ bg.kind = sync.kind
           /\ bg.row = sync.row
           /\ bg.exc = sync.exc
           /\ bg.post = sync.post
           /\ bg.op = "create_ff" /\ bg.kind = "entity"
                => Present(bg.post, bg.row.id) /\ bg.post[bg.row.id] = bg.row

\* ------------------------------------------------------------------ SpecConc
\* max_workers = max(4, os.cpu_count() or 1), on a host of at most 4 CPUs.
Workers == 4
\* self.__class__.__name__ of the DAO under test.
ClassName == "Dao"

SyncOps == {"get", "list", "list_by", "list_by_order_by", "exists", "create",
            "update", "upsert", "delete", "run_custom"}
BgOps == {"create_ff", "update_ff", "upsert_ff", "delete_ff"}

\* How many times the operation enters _run_in_session before its work runs:
\* update_ff and upsert_ff submit `lambda session: self.update(...)` and
\* `lambda session: self.upsert(...)`, which _runner runs inside
\* _run_in_session and which call _run_in_session again.
Depth(op) == IF op \in {"update_ff", "upsert_ff"} THEN 2 ELSE 1

\* What the callable may raise: the store rejects the work, or (run_custom)
\* the caller's own function fails.
Failures(op) == IF op = "run_custom" THEN {"StoreError", "CallerError"} ELSE {"StoreError"}

\* A thread's operation: where it is (pc), the sessions it holds (held), the
\* exception in flight or raised (exc), what _runner logged (logs), what the
\* Future holds (future), how often the operation's callable was invoked (ran)
\* and how many acquisitions of a session failed (failed).
Idle ==
    [op |-> "none", pc |-> "idle", held |-> 0, exc |-> "none", logs |-> <<>>,
     future |-> "none", calls |-> 0, ran |-> 0, failed |-> 0]
TaskIds == 1..MaxOps
Submitted == {i \in TaskIds : tasks[i].pc # "idle"}
Running == {i \in TaskIds : tasks[i].pc \in {"acquire", "fn", "release", "finish"}}
\* The DAO is open, its caller is between calls, and the calls made so far are
\* fewer than the bound.
MayCall ==
    /\ closed.pc = "open"
    /\ caller.pc \in {"idle", "done"}
    /\ Cardinality(Submitted) + caller.calls < MaxOps

\* close() has not been called.
Open == [pc |-> "open", disposal |-> "none", raised |-> "none", logs |-> <<>>]

InitConc ==
    /\ inUse = 0
    /\ queue = <<>>
    /\ tasks = [i \in TaskIds |-> Idle]
    /\ caller = Idle
    /\ closed = Open

\* A synchronous method is called: return self._run_in_session(...)
CallSync ==
    /\ MayCall
    /\ \E op \in SyncOps :
         caller' = [Idle EXCEPT !.op = op, !.pc = "acquire", !.calls = caller.calls + 1]
    /\ UNCHANGED <<inUse, queue, tasks, closed, otherThanConc>>

\* _submit_background: self._get_bg_executor().submit(_runner). The task joins
\* the executor's queue and the Future is returned at once.
_submit_background ==
    /\ MayCall
    /\ LET i == CHOOSE j \in TaskIds \ Submitted : \A o \in TaskIds \ Submitted : j <= o
       IN  \E op \in BgOps :
             /\ tasks' = [tasks EXCEPT ![i] = [Idle EXCEPT !.op = op, !.pc = "queued",
                                                          !.future = "pending"]]
             /\ queue' = Append(queue, i)
    /\ UNCHANGED <<inUse, caller, closed, otherThanConc>>

\* A free worker of the executor takes the oldest queued task and calls _runner.
WorkerStart ==
    /\ queue # <<>>
    /\ Cardinality(Running) < Workers
    /\ tasks' = [tasks EXCEPT ![Head(queue)].pc = "acquire"]
    /\ queue' = Tail(queue)
    /\ UNCHANGED <<inUse, caller, closed, otherThanConc>>

\* with self._pg.get_session() as session: a session is checked out of the
\* pool when one is free.
session_scope_enter(a) ==
    [a EXCEPT !.held = @ + 1,
              !.pc = IF a.held + 1 = Depth(a.op) THEN "fn" ELSE "acquire"]

\* Mutant of session_scope_fail: the acquisition is tried again.
session_scope_retry(a) == [a EXCEPT !.failed = @ + 1]

\* The pool has no session to give and fails the acquisition: the exception
\* leaves session_scope and _run_in_session, and fn is not called.
session_scope_fail(a) ==
    [a EXCEPT !.exc = "PoolExhausted", !.failed = @ + 1,
              !.pc = IF a.held > 0 THEN "release" ELSE "finish"]

\* Mutant of fn_exit: an exception leaves _run_in_session without releasing
\* the session.
fn_exit_leak(a, e) ==
    [a EXCEPT !.exc = e, !.ran = @ + 1, !.pc = IF e = "none" THEN "release" ELSE "finish"]

\* fn(session) returns or raises; either way the `with` block is left.
fn_exit(a, e) == [a EXCEPT !.exc = e, !.ran = @ + 1, !.pc = "release"]

\* Leaving `with self.session_scope()`: the session goes back to the pool.
session_scope_exit(a) ==
    [a EXCEPT !.held = @ - 1, !.pc = IF a.held - 1 > 0 THEN "release" ELSE "finish"]

\* Mutant of _runner: the failure is logged and not raised again, so the
\* Future holds a normal result.
_runner_swallow(a) ==
    IF a.exc # "none"
    THEN [a EXCEPT !.logs = Append(@, [logger_name |-> ClassName, exception |-> a.exc]),
                   !.future = "result", !.pc = "done"]
    ELSE [a EXCEPT !.future = "result", !.pc = "done"]

\* _runner's `except Exception as e`: log the failure, then `raise`, which
\* makes it the Future's exception; a normal return is the Future's result.
_runner(a) ==
    IF a.exc # "none"
    THEN [a EXCEPT !.logs = Append(@, [logger_name |-> ClassName, exception |-> a.exc]),
                   !.future = a.exc, !.pc = "done"]
    ELSE [a EXCEPT !.future = "result", !.pc = "done"]

CallerAcquire ==
    /\ caller.pc = "acquire"
    /\ inUse < PoolMax
    /\ inUse' = inUse + 1
    /\ caller' = session_scope_enter(caller)
    /\ UNCHANGED <<queue, tasks, closed, otherThanConc>>

CallerAcquireFail ==
    /\ caller.pc = "acquire"
    /\ inUse = PoolMax
    /\ caller' = session_scope_fail(caller)
    /\ UNCHANGED <<inUse, queue, tasks, closed, otherThanConc>>

CallerFn ==
    /\ caller.pc = "fn"
    /\ \E e \in {"none"} \cup Failures(caller.op) : caller' = fn_exit(caller, e)
    /\ UNCHANGED <<inUse, queue, tasks, closed, otherThanConc>>

CallerRelease ==
    /\ caller.pc = "release"
    /\ inUse' = inUse - 1
    /\ caller' = session_scope_exit(caller)
    /\ UNCHANGED <<queue, tasks, closed, otherThanConc>>

\* The synchronous method returns its result or raises to its caller.
CallerReturn ==
    /\ caller.pc = "finish"
    /\ caller' = [caller EXCEPT !.pc = "done"]
    /\ UNCHANGED <<inUse, queue, tasks, closed, otherThanConc>>

TaskAcquire(i) ==
    /\ tasks[i].pc = "acquire"
    /\ inUse < PoolMax
    /\ inUse' = inUse + 1
    /\ tasks' = [tasks EXCEPT ![i] = session_scope_enter(tasks[i])]
    /\ UNCHANGED <<queue, caller, closed, otherThanConc>>

TaskAcquireFail(i) ==
    /\ tasks[i].pc = "acquire"
    /\ inUse = PoolMax
    /\ tasks' = [tasks EXCEPT ![i] = session_scope_fail(tasks[i])]
    /\ UNCHANGED <<inUse, queue, caller, closed, otherThanConc>>

TaskFn(i) ==
    /\ tasks[i].pc = "fn"
    /\ \E e \in {"none"} \cup Failures(tasks[i].op) :
         tasks' = [tasks EXCEPT ![i] = fn_exit(tasks[i], e)]
    /\ UNCHANGED <<inUse, queue, caller, closed, otherThanConc>>

TaskRelease(i) ==
    /\ tasks[i].pc = "release"
    /\ inUse' = inUse - 1
    /\ tasks' = [tasks EXCEPT ![i] = session_scope_exit(tasks[i])]
    /\ UNCHANGED <<queue, caller, closed, otherThanConc>>

TaskFinish(i) ==
    /\ tasks[i].pc = "finish"
    /\ tasks' = [tasks EXCEPT ![i] = _runner(tasks[i])]
    /\ UNCHANGED <<inUse, queue, caller, closed, otherThanConc>>

\* Mutant of close_engine_outcome: the failure of the disposal is logged and
\* raised again.
close_reraise(e) ==
    [pc |-> "closed", disposal |-> e, raised |-> e,
     logs |-> IF e # "none" THEN <<[logger_name |-> ClassName, exception |-> e]>> ELSE <<>>]

\* try: self._pg.close_engine()  except Exception as e: self._logger.error(...)
\* e is what close_engine raised, or "none".
close_engine_outcome(e) ==
    [pc |-> "closed", disposal |-> e, raised |-> "none",
     logs |-> IF e # "none" THEN <<[logger_name |-> ClassName, exception |-> e]>> ELSE <<>>]

\* close(), called by the caller between its calls; the disposal of the pool
\* succeeds or fails.
close ==
    /\ closed.pc = "open"
    /\ caller.pc \in {"idle", "done"}
    /\ \E e \in {"none", "DisposeError"} : closed' = close_engine_outcome(e)
    /\ UNCHANGED <<inUse, queue, tasks, caller, otherThanConc>>

NextConc ==
    \/ close
    \/ CallSync
    \/ _submit_background
    \/ WorkerStart
    \/ CallerAcquire
    \/ CallerAcquireFail
    \/ CallerFn
    \/ CallerRelease
    \/ CallerReturn
    \/ \E i \in TaskIds : TaskAcquire(i)
    \/ \E i \in TaskIds : TaskAcquireFail(i)
    \/ \E i \in TaskIds : TaskFn(i)
    \/ \E i \in TaskIds : TaskRelease(i)
    \/ \E i \in TaskIds : TaskFinish(i)

\* ------------------------------------------------------------------ claims of SpecConc
RECURSIVE HeldBy(_)
HeldBy(S) ==
    IF S = {} THEN 0
    ELSE LET i == CHOOSE j \in S : TRUE IN tasks[i].held + HeldBy(S \ {i})

Complete(a) == a.pc \in {"idle", "done"}
AllComplete == Complete(caller) /\ \A i \in TaskIds : Complete(tasks[i])

\* C2: every session _run_in_session acquires is released on every way out,
\* by return and by exception: the pool's sessions in use are those the
\* operations under way hold, an operation that has left _run_in_session
\* holds none, and once every operation is complete none is in use.
C2_Released ==
    /\ inUse = caller.held + HeldBy(TaskIds)
    /\ caller.pc \in {"idle", "finish", "done"} => caller.held = 0
    /\ \A i \in TaskIds :
         tasks[i].pc \in {"idle", "queued", "finish", "done"} => tasks[i].held = 0
    /\ AllComplete => inUse = 0

\* A synchronous call raised the caller's error, a background operation
\* failed in the store, and no session is in use.
C2_Witness ==
    /\ AllComplete /\ inUse = 0
    /\ caller.pc = "done" /\ caller.exc = "CallerError"
    /\ \E i \in TaskIds : tasks[i].pc = "done" /\ tasks[i].exc = "StoreError"

\* C3: every public operation opens one unit of work: no operation holds two
\* sessions at any moment.
C3_OneUnitOfWork ==
    /\ caller.held <= 1
    /\ \A i \in TaskIds : tasks[i].held <= 1

\* C4: background execution does not deadlock: in no state do all the running
\* workers hold a session while waiting for another, with every session of the
\* pool held by those waiting workers (so that none of them can be given one).
C4_NoHoldAndWait ==
    ~ /\ Running # {}
      /\ HeldBy(Running) = PoolMax
      /\ \A i \in Running : tasks[i].pc = "acquire" /\ tasks[i].held >= 1

\* C5: a background operation that fails is logged once, by the DAO's logger
\* under the DAO's class name, and its Future holds that failure; one that does
\* not fail is not logged and its Future holds the result; nothing is logged
\* before _runner ends.
C5_FailureLoggedOnce ==
    \A i \in TaskIds :
        /\ tasks[i].pc = "done" /\ tasks[i].exc # "none"
             => /\ tasks[i].logs = <<[logger_name |-> ClassName, exception |-> tasks[i].exc]>>
                /\ tasks[i].future = tasks[i].exc
        /\ tasks[i].pc = "done" /\ tasks[i].exc = "none"
             => tasks[i].logs = <<>> /\ tasks[i].future = "result"
        /\ tasks[i].pc # "done" => tasks[i].logs = <<>> /\ tasks[i].future \in {"none", "pending"}

\* An upsert_ff whose inner upsert the store rejected, and a background
\* operation that the pool refused a session, each logged once.
C5_Witness ==
    /\ \E i \in TaskIds : /\ tasks[i].op = "upsert_ff" /\ tasks[i].pc = "done"
                           /\ tasks[i].exc = "StoreError" /\ Len(tasks[i].logs) = 1
    /\ \E i \in TaskIds : /\ tasks[i].pc = "done" /\ tasks[i].exc = "PoolExhausted"
                           /\ Len(tasks[i].logs) = 1

\* C16: close() raises nothing to its caller: a disposal of the pool that
\* fails is logged once, under the DAO's class name and with the exception,
\* and a disposal that succeeds is not logged.
C16_CloseLogs ==
    /\ closed.pc = "closed"
         => /\ closed.raised = "none"
            /\ closed.disposal # "none"
                 => closed.logs = <<[logger_name |-> ClassName, exception |-> closed.disposal]>>
            /\ closed.disposal = "none" => closed.logs = <<>>
    /\ closed.pc = "open" => closed.logs = <<>>

\* The disposal failed while a background operation was still under way;
\* close() logged the failure and returned.
C16_Witness ==
    /\ closed.pc = "closed" /\ closed.disposal = "DisposeError"
    /\ closed.raised = "none" /\ Len(closed.logs) = 1
    /\ Running # {}

Ops == {caller} \cup {tasks[i] : i \in TaskIds}

\* C18: an acquisition of a session that fails ends the operation with that
\* error: the callable the session was for is not invoked, the acquisition is
\* not tried again (one failure, and the operation is past acquiring), no
\* session stays held, and a background operation's Future holds the error.
C18_AcquireFails ==
    \A a \in Ops :
        /\ a.failed <= 1
        /\ a.failed = 1 <=> a.exc = "PoolExhausted"
        /\ a.exc = "PoolExhausted"
             => /\ a.ran = 0
                /\ a.pc \in {"release", "finish", "done"}
                /\ a.pc \in {"finish", "done"} => a.held = 0
                /\ a.pc = "done" /\ a.op \in BgOps => a.future = "PoolExhausted"
        /\ a.ran <= 1

\* A synchronous call was refused a session, the pool's sessions being held
\* by background operations, and raised the error without running anything.
C18_Witness ==
    /\ caller.pc = "done" /\ caller.exc = "PoolExhausted"
    /\ caller.ran = 0 /\ caller.failed = 1 /\ caller.held = 0
    /\ inUse = PoolMax

\* ------------------------------------------------------------------ SpecRace
\* A background write: upsert_ff(key, a=val). `after` are the writes whose
\* Future had resolved when the caller submitted this one.
NotSubmitted == [pc |-> "idle", key |-> Null, val |-> Null, after |-> {}]

InitRace ==
    /\ shared = EmptyStore
    /\ race = [i \in TaskIds |-> NotSubmitted]
    /\ pending = <<>>
    /\ written = <<>>

\* Mutant of resolved: the Future counts as resolved once it is returned.
resolved_on_submit(a) == a.pc # "idle"

\* Future.done(): _runner has returned or raised.
resolved(a) == a.pc = "done"

\* upsert_ff(k, a=v): _submit_background queues _runner and returns the Future.
\* The caller may have waited for earlier Futures, or not.
race_submit ==
    /\ \E i \in TaskIds :
         /\ race[i].pc = "idle"
         /\ \A j \in TaskIds : j < i => race[j].pc # "idle"
         /\ \E k \in Keys, v \in Vals :
              race' = [race EXCEPT ![i] = [pc |-> "queued", key |-> k, val |-> v,
                                           after |-> {j \in TaskIds : resolved(race[j])}]]
         /\ pending' = Append(pending, i)
    /\ UNCHANGED <<shared, written, otherThanRace>>

\* A free worker of the executor takes the oldest queued _runner.
race_start ==
    /\ pending # <<>>
    /\ Cardinality({i \in TaskIds : race[i].pc = "running"}) < Workers
    /\ race' = [race EXCEPT ![Head(pending)].pc = "running"]
    /\ pending' = Tail(pending)
    /\ UNCHANGED <<shared, written, otherThanRace>>

\* The worker runs the upsert in a session of its own; the write is in the
\* store when the session is released, and the Future resolves.
race_run(i) ==
    /\ race[i].pc = "running"
    /\ LET r == _run_in_session(shared, upsert_write(Session(shared), race[i].key,
                                                      [id |-> Unset, a |-> race[i].val]))
       IN  shared' = r.db
    /\ written' = Append(written, i)
    /\ race' = [race EXCEPT ![i].pc = "done"]
    /\ UNCHANGED <<pending, otherThanRace>>

NextRace ==
    \/ race_submit
    \/ race_start
    \/ \E i \in TaskIds : race_run(i)

\* ------------------------------------------------------------------ claims of SpecRace
\* The position of write i in the order the writes reached the store.
Position(i) == CHOOSE n \in 1..Len(written) : written[n] = i
HasRun(i) == \E n \in 1..Len(written) : written[n] = i
\* Write i is the last that reached the store on its key.
LastOnKey(i) ==
    /\ HasRun(i)
    /\ \A j \in TaskIds \ {i} :
          HasRun(j) /\ race[j].key = race[i].key => Position(j) < Position(i)

\* C19: the store holds, for a key, the value of the write that reached it
\* last, whatever the order of submission; a write submitted after the Future
\* of another had resolved reaches the store after that one, so that of two
\* writes on a key, the second submitted after waiting for the first, the
\* second is the final one.
C19_WaitOrders ==
    /\ \A i \in TaskIds : LastOnKey(i) => shared[race[i].key].a = race[i].val
    /\ \A i, j \in TaskIds :
          i \in race[j].after /\ HasRun(j) => HasRun(i) /\ Position(i) < Position(j)
    /\ \A i, j \in TaskIds :
          /\ i \in race[j].after /\ race[i].key = race[j].key /\ race[j].pc = "done"
          /\ \A o \in TaskIds \ {i, j} : race[o].key # race[j].key
          => shared[race[j].key].a = race[j].val

\* Two writes of different values on one key, the second submitted without
\* waiting for the first: the second reached the store first, and the value
\* stored is that of the first.
C19_Witness ==
    /\ race[1].pc = "done" /\ race[2].pc = "done"
    /\ race[1].key = race[2].key /\ race[1].val # race[2].val
    /\ 1 \notin race[2].after
    /\ written = <<2, 1>>
    /\ shared[race[1].key].a = race[1].val

\* ------------------------------------------------------------------ SpecSubmit
InitSubmit ==
    /\ futures = 0
    /\ waiting = 0
    /\ starting = 0
    /\ inSession = 0
    /\ settled = 0
    /\ syncHeld = 0
    /\ whenBusy = FALSE

\* Every worker of the executor is running a _runner, and every session of
\* the pool is held.
AllBusy == starting + inSession = Workers /\ inSession + syncHeld = PoolMax

\* Mutant of ff_call: the submission waits for a free worker.
ff_call_bounded ==
    /\ futures < MaxSubmit
    /\ starting + inSession < Workers
    /\ futures' = futures + 1
    /\ waiting' = waiting + 1
    /\ whenBusy' = (whenBusy \/ AllBusy)
    /\ UNCHANGED <<starting, inSession, settled, syncHeld, otherThanSubmit>>

\* create_ff / update_ff / upsert_ff / delete_ff: _submit_background puts
\* _runner in the executor's queue, which has no bound, and returns the Future.
ff_call ==
    /\ futures < MaxSubmit
    /\ futures' = futures + 1
    /\ waiting' = waiting + 1
    /\ whenBusy' = (whenBusy \/ AllBusy)
    /\ UNCHANGED <<starting, inSession, settled, syncHeld, otherThanSubmit>>

\* A free worker takes a queued _runner and calls it.
worker_take ==
    /\ waiting > 0
    /\ starting + inSession < Workers
    /\ waiting' = waiting - 1
    /\ starting' = starting + 1
    /\ UNCHANGED <<futures, inSession, settled, syncHeld, whenBusy, otherThanSubmit>>

\* _run_in_session in a worker gets a session of the pool.
worker_acquire ==
    /\ starting > 0
    /\ inSession + syncHeld < PoolMax
    /\ starting' = starting - 1
    /\ inSession' = inSession + 1
    /\ UNCHANGED <<futures, waiting, settled, syncHeld, whenBusy, otherThanSubmit>>

\* ... or the pool, having none, fails the acquisition: the Future resolves to
\* the failure.
worker_acquire_fail ==
    /\ starting > 0
    /\ inSession + syncHeld = PoolMax
    /\ starting' = starting - 1
    /\ settled' = settled + 1
    /\ UNCHANGED <<futures, waiting, inSession, syncHeld, whenBusy, otherThanSubmit>>

\* fn returns or raises, the session is released, the Future resolves.
worker_finish ==
    /\ inSession > 0
    /\ inSession' = inSession - 1
    /\ settled' = settled + 1
    /\ UNCHANGED <<futures, waiting, starting, syncHeld, whenBusy, otherThanSubmit>>

\* A synchronous call on another thread holds a session of the pool, and
\* releases it.
sync_hold ==
    /\ inSession + syncHeld < PoolMax
    /\ syncHeld' = syncHeld + 1
    /\ UNCHANGED <<futures, waiting, starting, inSession, settled, whenBusy, otherThanSubmit>>

sync_release ==
    /\ syncHeld > 0
    /\ syncHeld' = syncHeld - 1
    /\ UNCHANGED <<futures, waiting, starting, inSession, settled, whenBusy, otherThanSubmit>>

NextSubmit ==
    \/ ff_call
    \/ worker_take
    \/ worker_acquire
    \/ worker_acquire_fail
    \/ worker_finish
    \/ sync_hold
    \/ sync_release

\* ------------------------------------------------------------------ claims of SpecSubmit
\* C20: a fire-and-forget call returns its Future without waiting for the
\* operation: in every state, whatever the workers and the pool are doing, the
\* call can complete, and each Future returned stands for a _runner that is
\* queued, running or finished.
C20_SubmitReturns ==
    /\ futures < MaxSubmit => ENABLED ff_call
    /\ futures = waiting + starting + inSession + settled
    /\ starting + inSession <= Workers
    /\ inSession + syncHeld <= PoolMax

\* A Future was returned while all the workers were busy and the pool had no
\* session left; its _runner is in the queue, and they still are.
C20_Witness ==
    /\ whenBusy
    /\ AllBusy
    /\ waiting >= 1
    /\ futures > Workers

\* ------------------------------------------------------------------ SpecExec
\* DataAccessObject and two classes derived from it. The class body binds
\* _bg_executor = None on DataAccessObject alone; a derived class has no
\* binding of its own until one is assigned to it.
Base == "DataAccessObject"
Subclasses == {"A", "B"}
Classes == {Base} \cup Subclasses
ExecThreads == 1..NumThreads

\* cls._bg_executor read: the class's own binding, else the base class's.
Lookup(bindings, cls) == IF bindings[cls] # Unset THEN bindings[cls] ELSE bindings[Base]

\* cls._bg_executor = ThreadPoolExecutor(...): binds the attribute on cls.
Assign(bindings, cls, executor) == [bindings EXCEPT ![cls] = executor]

NotCalling == [cls |-> Base, pc |-> "idle", result |-> Null]

InitExec ==
    /\ attr = [c \in Classes |-> IF c = Base THEN Null ELSE Unset]
    /\ lock = 0
    /\ created = 0
    /\ threads = [t \in ExecThreads |-> NotCalling]

\* A thread calls _get_bg_executor on the class of its DAO instance.
ExecCall(t) ==
    /\ threads[t].pc \in {"idle", "done"}
    /\ \E cls \in Classes :
         threads' = [threads EXCEPT ![t] = [cls |-> cls, pc |-> "check", result |-> Null]]
    /\ UNCHANGED <<attr, lock, created, otherThanExec>>

\* if cls._bg_executor is None:
ExecCheck(t) ==
    /\ threads[t].pc = "check"
    /\ threads' = [threads EXCEPT ![t].pc =
                     IF Lookup(attr, threads[t].cls) = Null THEN "lock" ELSE "return"]
    /\ UNCHANGED <<attr, lock, created, otherThanExec>>

\* with cls._bg_lock:
ExecLock(t) ==
    /\ threads[t].pc = "lock"
    /\ lock = 0
    /\ lock' = t
    /\ threads' = [threads EXCEPT ![t].pc = "recheck"]
    /\ UNCHANGED <<attr, created, otherThanExec>>

\* if cls._bg_executor is None: (under the lock)
ExecRecheck(t) ==
    /\ threads[t].pc = "recheck"
    /\ threads' = [threads EXCEPT ![t].pc =
                     IF Lookup(attr, threads[t].cls) = Null THEN "create" ELSE "unlock"]
    /\ UNCHANGED <<attr, lock, created, otherThanExec>>

\* cls._bg_executor = ThreadPoolExecutor(max_workers=max_workers, ...)
ExecCreate(t) ==
    /\ threads[t].pc = "create"
    /\ created' = created + 1
    /\ attr' = Assign(attr, threads[t].cls, created + 1)
    /\ threads' = [threads EXCEPT ![t].pc = "unlock"]
    /\ UNCHANGED <<lock, otherThanExec>>

\* The `with cls._bg_lock` block is left.
ExecUnlock(t) ==
    /\ threads[t].pc = "unlock"
    /\ lock' = 0
    /\ threads' = [threads EXCEPT ![t].pc = "return"]
    /\ UNCHANGED <<attr, created, otherThanExec>>

\* return cls._bg_executor
ExecReturn(t) ==
    /\ threads[t].pc = "return"
    /\ threads' = [threads EXCEPT ![t].pc = "done",
                                  ![t].result = Lookup(attr, threads[t].cls)]
    /\ UNCHANGED <<attr, lock, created, otherThanExec>>

NextExec ==
    \/ \E t \in ExecThreads : ExecCall(t)
    \/ \E t \in ExecThreads : ExecCheck(t)
    \/ \E t \in ExecThreads : ExecLock(t)
    \/ \E t \in ExecThreads : ExecRecheck(t)
    \/ \E t \in ExecThreads : ExecCreate(t)
    \/ \E t \in ExecThreads : ExecUnlock(t)
    \/ \E t \in ExecThreads : ExecReturn(t)

\* ------------------------------------------------------------------ claims of SpecExec
\* C1: however the threads that call _get_bg_executor interleave, and whatever
\* classes they call it on, one executor is created and every call returns it.
C1_OneExecutor ==
    /\ created <= 1
    /\ \A t, u \in ExecThreads :
         threads[t].pc = "done" /\ threads[u].pc = "done"
             => threads[t].result = threads[u].result

\* ------------------------------------------------------------------ SpecClose
\* The DAO instances of the process. Each constructs its own PostgresConnection
\* in __init__ (self._pg); _bg_executor is an attribute of the class.
DAOs == {"dao1", "dao2"}

NotRun == [dao |-> "none", kind |-> "none", ok |-> TRUE, others |-> {}]

InitClose ==
    /\ pools = [d \in DAOs |-> "open"]
    /\ bgExecutor = "none"
    /\ bgQueue = <<>>
    /\ closedDaos = {}
    /\ lastRun = NotRun

\* self._pg.close_engine(): disposes the pool of the instance it is called on.
close_engine(ps, d) == [ps EXCEPT ![d] = "disposed"]

\* An operation of DAO d that runs in a session of d's pool, with the other
\* instances closed so far.
Ran(d, kind) ==
    [dao |-> d, kind |-> kind, ok |-> pools[d] = "open", others |-> closedDaos \ {d}]

\* close() that also shuts the class's executor down.
dao_close_shutdown(d) ==
    /\ d \notin closedDaos
    /\ pools' = close_engine(pools, d)
    /\ closedDaos' = closedDaos \cup {d}
    /\ bgExecutor' = "shutdown"
    /\ UNCHANGED <<bgQueue, lastRun, otherThanClose>>

\* close() on the instance d: self._pg.close_engine() and nothing else.
dao_close(d) ==
    /\ d \notin closedDaos
    /\ pools' = close_engine(pools, d)
    /\ closedDaos' = closedDaos \cup {d}
    /\ UNCHANGED <<bgExecutor, bgQueue, lastRun, otherThanClose>>

\* A synchronous operation on the instance d: _run_in_session on self._pg.
dao_sync(d) ==
    /\ pools[d] = "open"
    /\ lastRun' = Ran(d, "sync")
    /\ UNCHANGED <<pools, bgExecutor, bgQueue, closedDaos, otherThanClose>>

\* A fire-and-forget operation on the instance d: _submit_background creates
\* the executor on first use and queues the _runner of d.
dao_submit(d) ==
    /\ pools[d] = "open"
    /\ bgExecutor # "shutdown"
    /\ Len(bgQueue) < MaxOps
    /\ bgExecutor' = "running"
    /\ bgQueue' = Append(bgQueue, d)
    /\ UNCHANGED <<pools, closedDaos, lastRun, otherThanClose>>

\* A worker of the executor runs the _runner at the head of the queue, in a
\* session of the pool of the instance that submitted it.
dao_run ==
    /\ bgExecutor = "running"
    /\ bgQueue # <<>>
    /\ lastRun' = Ran(Head(bgQueue), "ff")
    /\ bgQueue' = Tail(bgQueue)
    /\ UNCHANGED <<pools, bgExecutor, closedDaos, otherThanClose>>

NextClose ==
    \/ \E d \in DAOs : dao_close(d)
    \/ \E d \in DAOs : dao_sync(d)
    \/ \E d \in DAOs : dao_submit(d)
    \/ dao_run

\* ------------------------------------------------------------------ claims of SpecClose
\* C21: close() on one DAO disposes the pool of that instance only: the
\* background executor is never shut down, the pool of an instance that was not
\* closed stays open, and such an instance still runs its synchronous
\* operations and has its fire-and-forget submissions accepted and executed.
C21_CloseIsLocal ==
    /\ bgExecutor # "shutdown"
    /\ \A d \in DAOs : pools[d] = "disposed" => d \in closedDaos
    /\ \A d \in DAOs \ closedDaos :
         /\ ENABLED dao_sync(d)
         /\ Len(bgQueue) < MaxOps => ENABLED dao_submit(d)
    /\ bgQueue # <<>> => ENABLED dao_run
    /\ lastRun.dao \notin closedDaos => lastRun.ok

C21_Witness ==
    /\ lastRun.kind = "ff"
    /\ lastRun.ok
    /\ lastRun.others # {}
    /\ lastRun.dao \notin closedDaos

\* ------------------------------------------------------------------ SpecDict
\* Keys and values of the dictionaries; None is a value like any other.
DKeys == {"a", "b"}
DValues == {Null, 1}
Pairs == DKeys \X DValues

\* The longest iterable of pairs passed to update.
MaxPairs == 2

\* A dict: its (key, value) pairs in insertion order.
Has(d, k) == \E i \in 1..Len(d) : d[i][1] = k
Index(d, k) == CHOOSE i \in 1..Len(d) : d[i][1] = k
dict_getitem(d, k) == d[Index(d, k)][2]
dict_setitem(d, k, v) ==
    IF Has(d, k) THEN [d EXCEPT ![Index(d, k)] = <<k, v>>] ELSE Append(d, <<k, v>>)
dict_delitem(d, k) == SelectSeq(d, LAMBDA p : p[1] # k)

RECURSIVE AssignAll(_, _)
AssignAll(d, pairs) ==
    IF pairs = <<>> THEN d
    ELSE AssignAll(dict_setitem(d, Head(pairs)[1], Head(pairs)[2]), Tail(pairs))

PairSeqs == UNION {[1..n -> Pairs] : n \in 0..MaxPairs}
Dicts == {s \in UNION {[1..n -> Pairs] : n \in 0..Cardinality(DKeys)} :
            \A i, j \in 1..Len(s) : s[i][1] = s[j][1] => i = j}

\* The positional argument of update: left out, a Mapping, or an iterable of
\* pairs, which may hold a malformed element after its pairs.
NoOther == [kind |-> "omitted", pairs |-> <<>>, fails |-> FALSE]
Others ==
    {NoOther}
    \cup {[kind |-> "mapping", pairs |-> m, fails |-> FALSE] : m \in Dicts}
    \cup {[kind |-> "iterable", pairs |-> s, fails |-> f] : s \in PairSeqs, f \in BOOLEAN}

\* A call of a method: its arguments as the caller wrote them. "given" tells
\* whether the caller passed a default, "value" is the value or default passed.
Blank ==
    [op |-> "none", key |-> "", value |-> Null, given |-> FALSE,
     other |-> NoOther, kwargs |-> <<>>]

\* What a call has done so far: the contents, the value returned, the
\* exception raised, and the callback's invocations, each with the contents
\* of the dictionary at the time.
Start(d) == [d |-> d, ret |-> Unset, exc |-> "none", notes |-> <<>>]
Return(f, v) == IF f.exc # "none" THEN f ELSE [f EXCEPT !.ret = v]
Throw(f, e) == IF f.exc # "none" THEN f ELSE [f EXCEPT !.exc = e]

\* _notify that lets the callback's exception through.
_notify_propagate(f, cb, operation, items) ==
    IF f.exc # "none" \/ cb = "none" THEN f
    ELSE [f EXCEPT !.notes = Append(@, [operation |-> operation, items |-> items, seen |-> f.d]),
                   !.exc = IF cb = "raises" THEN "CallbackError" ELSE @]

\* _notify: if self._on_change: try: self._on_change(operation, items)
\* except Exception: pass
_notify(f, cb, operation, items) ==
    IF f.exc # "none" \/ cb = "none" THEN f
    ELSE [f EXCEPT !.notes = Append(@, [operation |-> operation, items |-> items, seen |-> f.d])]

__setitem__(d, cb, k, v) ==
    Return(_notify([Start(d) EXCEPT !.d = dict_setitem(d, k, v)], cb, "set", <<<<k, v>>>>), Null)

\* _assign_pairs: assigns the pairs as it iterates; a malformed element raises
\* out of the loop, and the list of assigned pairs is not returned.
_assign_pairs(f, pairs, fails) ==
    [f EXCEPT !.d = AssignAll(f.d, pairs), !.exc = IF fails THEN "ValueError" ELSE @]

\* update that assigns and lists the keyword arguments first.
od_update_kwargs_first(d, cb, other, kwargs) ==
    LET given == other.kind \in {"mapping", "iterable"}
        f1 == [Start(d) EXCEPT !.d = AssignAll(d, kwargs)]
        f2 == IF given THEN _assign_pairs(f1, other.pairs, other.fails) ELSE f1
        changed == kwargs \o other.pairs
        f3 == IF changed # <<>> THEN _notify(f2, cb, "update", changed) ELSE f2
    IN  Return(f3, Null)

od_update(d, cb, other, kwargs) ==
    LET given == other.kind \in {"mapping", "iterable"}
        f1 == IF given THEN _assign_pairs(Start(d), other.pairs, other.fails) ELSE Start(d)
        f2 == IF f1.exc # "none" THEN f1 ELSE [f1 EXCEPT !.d = AssignAll(f1.d, kwargs)]
        changed == other.pairs \o kwargs
        f3 == IF changed # <<>> THEN _notify(f2, cb, "update", changed) ELSE f2
    IN  Return(f3, Null)

\* setdefault that notifies also when the key is present.
setdefault_always(d, cb, k, default) ==
    LET value == IF Has(d, k) THEN dict_getitem(d, k) ELSE default
    IN  Return(_notify([Start(d) EXCEPT !.d = dict_setitem(d, k, value)],
                       cb, "setdefault", <<<<k, value>>>>), value)

setdefault(d, cb, k, default) ==
    IF Has(d, k) THEN Return(Start(d), dict_getitem(d, k))
    ELSE LET value == IF default # Null THEN default ELSE Null
         IN  Return(_notify([Start(d) EXCEPT !.d = dict_setitem(d, k, value)],
                            cb, "setdefault", <<<<k, value>>>>), value)

\* pop that returns the default without looking for the key.
pop_default_first(d, cb, k, default) ==
    IF default # Null THEN Return(Start(d), default)
    ELSE IF Has(d, k)
         THEN Return(_notify([Start(d) EXCEPT !.d = dict_delitem(d, k)],
                             cb, "pop", <<<<k, dict_getitem(d, k)>>>>), dict_getitem(d, k))
         ELSE Throw(Start(d), "KeyError")

pop(d, cb, k, default) ==
    IF Has(d, k)
    THEN Return(_notify([Start(d) EXCEPT !.d = dict_delitem(d, k)],
                        cb, "pop", <<<<k, dict_getitem(d, k)>>>>), dict_getitem(d, k))
    ELSE IF default # Null THEN Return(Start(d), default)
         ELSE Throw(Start(d), "KeyError")

popitem(d, cb) ==
    IF d = <<>> THEN Throw(Start(d), "KeyError")
    ELSE Return(_notify([Start(d) EXCEPT !.d = SubSeq(d, 1, Len(d) - 1)],
                        cb, "popitem", <<d[Len(d)]>>), d[Len(d)])

clear(d, cb) ==
    IF d = <<>> THEN Return(Start(d), Null)
    ELSE Return(_notify([Start(d) EXCEPT !.d = <<>>], cb, "clear", d), Null)

\* __delitem__ that notifies before it deletes.
delitem_notify_first(d, cb, k) ==
    IF ~Has(d, k) THEN Throw(Start(d), "KeyError")
    ELSE Return([_notify(Start(d), cb, "delitem", <<<<k, dict_getitem(d, k)>>>>)
                    EXCEPT !.d = dict_delitem(d, k)], Null)

__delitem__(d, cb, k) ==
    IF ~Has(d, k) THEN Throw(Start(d), "KeyError")
    ELSE Return(_notify([Start(d) EXCEPT !.d = dict_delitem(d, k)],
                        cb, "delitem", <<<<k, dict_getitem(d, k)>>>>), Null)

\* The call c made on an ObservableDict of contents d and callback cb. The
\* methods see a default that was not passed as None.
Apply(d, cb, c) ==
    CASE c.op = "set" -> __setitem__(d, cb, c.key, c.value)
      [] c.op = "update" -> od_update(d, cb, c.other, c.kwargs)
      [] c.op = "setdefault" -> setdefault(d, cb, c.key, c.value)
      [] c.op = "pop" -> pop(d, cb, c.key, c.value)
      [] c.op = "popitem" -> popitem(d, cb)
      [] c.op = "clear" -> clear(d, cb)
      [] c.op = "delitem" -> __delitem__(d, cb, c.key)

\* The same call made on a plain dict, the class ObservableDict extends.
dict_call(d, c) ==
    CASE c.op = "set" -> Return([Start(d) EXCEPT !.d = dict_setitem(d, c.key, c.value)], Null)
      [] c.op = "update" ->
            LET f1 == [Start(d) EXCEPT !.d = AssignAll(d, c.other.pairs),
                                     !.exc = IF c.other.fails THEN "ValueError" ELSE "none"]
            IN  IF f1.exc # "none" THEN f1
                ELSE Return([f1 EXCEPT !.d = AssignAll(f1.d, c.kwargs)], Null)
      [] c.op = "setdefault" ->
            IF Has(d, c.key) THEN Return(Start(d), dict_getitem(d, c.key))
            ELSE Return([Start(d) EXCEPT !.d = dict_setitem(d, c.key, c.value)], c.value)
      [] c.op = "pop" ->
            IF Has(d, c.key)
            THEN Return([Start(d) EXCEPT !.d = dict_delitem(d, c.key)], dict_getitem(d, c.key))
            ELSE IF c.given THEN Return(Start(d), c.value)
                 ELSE Throw(Start(d), "KeyError")
      [] c.op = "popitem" ->
            IF d = <<>> THEN Throw(Start(d), "KeyError")
            ELSE Return([Start(d) EXCEPT !.d = SubSeq(d, 1, Len(d) - 1)], d[Len(d)])
      [] c.op = "clear" -> Return([Start(d) EXCEPT !.d = <<>>], Null)
      [] c.op = "delitem" ->
            IF ~Has(d, c.key) THEN Throw(Start(d), "KeyError")
            ELSE Return([Start(d) EXCEPT !.d = dict_delitem(d, c.key)], Null)

NoDictCall == [c |-> Blank, cb |-> "none", pre |-> <<>>, res |-> Start(<<>>)]

\* ObservableDict() and dict(): empty, no callback.
InitDict ==
    /\ obs = <<>>
    /\ plain = <<>>
    /\ on_change = "none"
    /\ dcall = NoDictCall
    /\ pcall = Start(<<>>)

\* The call c is made on both dictionaries, once the caller has taken the
\* outcome of the call before it.
Invoke(c) ==
    /\ dcall = NoDictCall
    /\ obs' = Apply(obs, on_change, c).d
    /\ dcall' = [c |-> c, cb |-> on_change, pre |-> obs, res |-> Apply(obs, on_change, c)]
    /\ plain' = dict_call(plain, c).d
    /\ pcall' = dict_call(plain, c)
    /\ UNCHANGED <<on_change, otherThanDict>>

\* set_on_change(callback): no callback, one that returns, or one that raises.
set_on_change ==
    /\ dcall = NoDictCall
    /\ \E cb \in {"none", "ok", "raises"} : on_change' = cb
    /\ UNCHANGED <<obs, plain, dcall, pcall, otherThanDict>>

call_setitem ==
    \E k \in DKeys, v \in DValues : Invoke([Blank EXCEPT !.op = "set", !.key = k, !.value = v])

call_update ==
    \E o \in Others, kw \in Dicts : Invoke([Blank EXCEPT !.op = "update", !.other = o, !.kwargs = kw])

call_setdefault ==
    \E k \in DKeys, g \in BOOLEAN, v \in DValues :
        /\ ~g => v = Null
        /\ Invoke([Blank EXCEPT !.op = "setdefault", !.key = k, !.given = g, !.value = v])

call_pop ==
    \E k \in DKeys, g \in BOOLEAN, v \in DValues :
        /\ ~g => v = Null
        /\ Invoke([Blank EXCEPT !.op = "pop", !.key = k, !.given = g, !.value = v])

call_popitem == Invoke([Blank EXCEPT !.op = "popitem"])

call_clear == Invoke([Blank EXCEPT !.op = "clear"])

call_delitem == \E k \in DKeys : Invoke([Blank EXCEPT !.op = "delitem", !.key = k])

\* The caller takes the outcome of its call and goes on.
call_return ==
    /\ dcall # NoDictCall
    /\ dcall' = NoDictCall
    /\ pcall' = Start(<<>>)
    /\ UNCHANGED <<obs, plain, on_change, otherThanDict>>

NextDict ==
    \/ set_on_change
    \/ call_return
    \/ call_setitem
    \/ call_update
    \/ call_setdefault
    \/ call_pop
    \/ call_popitem
    \/ call_clear
    \/ call_delitem

\* ------------------------------------------------------------------ claims of SpecDict
Res == dcall.res
Called(op) == dcall.c.op = op
Note(operation, items) == [operation |-> operation, items |-> items, seen |-> Res.d]

\* C22: when the callback raises, a call returns the value, leaves the contents
\* and raises the exception it has with a callback that returns, and the
\* callback's exception does not reach the caller.
C22_CallbackContained ==
    dcall.cb = "raises" =>
        LET calm == Apply(dcall.pre, "ok", dcall.c)
        IN  /\ Res.ret = calm.ret
            /\ Res.d = calm.d
            /\ Res.exc = calm.exc
            /\ Res.exc # "CallbackError"

C22_Witness ==
    /\ Called("pop")
    /\ dcall.cb = "raises"
    /\ Len(Res.notes) = 1
    /\ Res.ret = 1

PopFound ==
    LET k == dcall.c.key
    IN  /\ Res.d = dict_delitem(dcall.pre, k)
        /\ Res.ret = dict_getitem(dcall.pre, k)
        /\ Res.exc = "none"
        /\ dcall.cb # "none" => Res.notes = <<Note("pop", <<<<k, Res.ret>>>>)>>
PopMissing(given) ==
    /\ Res.d = dcall.pre
    /\ Res.notes = <<>>
    /\ IF given THEN Res.ret = dcall.c.value /\ Res.exc = "none"
       ELSE Res.exc = "KeyError"

C25_SetDefault ==
    Called("setdefault") =>
        LET k == dcall.c.key
        IN  IF Has(dcall.pre, k)
            THEN /\ Res.ret = dict_getitem(dcall.pre, k)
                 /\ Res.d = dcall.pre
                 /\ Res.notes = <<>>
            ELSE /\ Res.d = Append(dcall.pre, <<k, dcall.c.value>>)
                 /\ Res.ret = dcall.c.value
                 /\ dcall.cb # "none" => Res.notes = <<Note("setdefault", <<<<k, dcall.c.value>>>>)>>

C25_Witness ==
    /\ Called("setdefault")
    /\ dcall.cb = "ok"
    /\ ~Has(dcall.pre, dcall.c.key)
    /\ ~dcall.c.given
    /\ Len(Res.notes) = 1
    /\ Res.ret = Null

\* C27: after every call the ObservableDict and the plain dict given the same
\* calls hold the same pairs in the same order, and the call returned the same
\* value or raised the same exception on both.
C27_DictCompatible ==
    /\ obs = plain
    /\ dcall # NoDictCall => Res.ret = pcall.ret /\ Res.exc = pcall.exc

\* C29: a call invokes the callback at most once, and when it does the
\* dictionary already holds the contents it has when the call returns.
C29_NotifyAfterChange ==
    /\ Len(Res.notes) <= 1
    /\ \A i \in 1..Len(Res.notes) : Res.notes[i].seen = obs

C29_Witness ==
    /\ Called("delitem")
    /\ Len(Res.notes) = 1
    /\ obs # dcall.pre

\* The keys whose entry the latest call added, changed or removed.
Touched ==
    {k \in DKeys :
        \/ Has(dcall.pre, k) # Has(obs, k)
        \/ Has(obs, k) /\ dict_getitem(dcall.pre, k) # dict_getitem(obs, k)}

\* C30: with a callback set, a call that changes the contents invokes the
\* callback, and the pairs it passes cover every key whose entry changed, also
\* when the call is an update that raises partway through its input.
C30_NoSilentChange ==
    dcall.cb # "none" /\ obs # dcall.pre =>
        /\ Len(Res.notes) = 1
        /\ \A k \in Touched :
              \E i \in 1..Len(Res.notes[1].items) : Res.notes[1].items[i][1] = k

\* ------------------------------------------------------------------ SpecCopy
\* The ObservableDict objects: the original, and the one copy() may create.
Original == "original"
Fresh == "fresh"
NoObject == [d |-> <<>>, cb |-> "absent"]
NoCopy == "none"

\* task_states = ObservableDict(on_change=on_state_change)
InitCopy ==
    /\ heap = [o \in {Original, Fresh} |->
                 IF o = Original THEN [d |-> <<>>, cb |-> "ok"] ELSE NoObject]
    /\ duplicate = NoCopy
    /\ expect = [original |-> <<>>, duplicate |-> <<>>]
    /\ heard = FALSE
    /\ since = {}

\* copy that returns the dictionary itself.
copy_self(h, self) == [heap |-> h, ref |-> self]

\* copy: return ObservableDict(self.items()), a new dictionary built from the
\* pairs, with no on_change.
copy(h, self) ==
    [heap |-> [h EXCEPT ![Fresh] = [d |-> h[self].d, cb |-> "none"]], ref |-> Fresh]

\* The calls that change a dictionary.
Mutations ==
    {[Blank EXCEPT !.op = "set", !.key = k, !.value = v] : k \in DKeys, v \in DValues}
    \cup {[Blank EXCEPT !.op = "update", !.other = [kind |-> "mapping", pairs |-> m, fails |-> FALSE]] :
            m \in Dicts}
    \cup {[Blank EXCEPT !.op = "setdefault", !.key = k] : k \in DKeys}
    \cup {[Blank EXCEPT !.op = "pop", !.key = k] : k \in DKeys}
    \cup {[Blank EXCEPT !.op = op] : op \in {"popitem", "clear"}}
    \cup {[Blank EXCEPT !.op = "delitem", !.key = k] : k \in DKeys}

call_copy ==
    /\ heap' = copy(heap, Original).heap
    /\ duplicate' = copy(heap, Original).ref
    /\ expect' = [expect EXCEPT !.duplicate = heap[Original].d]
    /\ heard' = FALSE
    /\ since' = {}
    /\ UNCHANGED otherThanCopy

\* A call on the original, before or after the copy was taken.
mutate_original ==
    \E c \in Mutations :
        LET r == Apply(heap[Original].d, heap[Original].cb, c)
        IN  /\ r.d # heap[Original].d
            /\ heap' = [heap EXCEPT ![Original].d = r.d]
            /\ expect' = [expect EXCEPT !.original = r.d]
            /\ since' = IF duplicate = NoCopy THEN since ELSE since \cup {"original"}
            /\ UNCHANGED <<duplicate, heard, otherThanCopy>>

\* A call on the dictionary copy() returned.
mutate_copy ==
    /\ duplicate # NoCopy
    /\ \E c \in Mutations :
        LET r == Apply(heap[duplicate].d, heap[duplicate].cb, c)
        IN  /\ r.d # heap[duplicate].d
            /\ heap' = [heap EXCEPT ![duplicate].d = r.d]
            /\ expect' = [expect EXCEPT !.duplicate = r.d]
            /\ heard' = (heard \/ r.notes # <<>>)
            /\ since' = since \cup {"copy"}
            /\ UNCHANGED <<duplicate, otherThanCopy>>

NextCopy ==
    \/ call_copy
    \/ mutate_original
    \/ mutate_copy

\* ------------------------------------------------------------------ claims of SpecCopy
\* C26: the copy is another dictionary than the original, starts with the
\* pairs of the original and has no callback; whatever calls are then made on
\* either, each of the two holds what the calls made on it alone produce, and
\* no call on the copy invokes a callback.
C26_CopyIndependent ==
    duplicate # NoCopy =>
        /\ heap[duplicate].cb = "none"
        /\ since = {} => heap[duplicate].d = heap[Original].d
        /\ heap[Original].d = expect.original
        /\ heap[duplicate].d = expect.duplicate
        /\ ~heard

C26_Witness ==
    /\ since = {"original", "copy"}
    /\ heap[Original].d # <<>>
    /\ heap[Fresh].d # <<>>
    /\ heap[Original].d # heap[Fresh].d

\* ------------------------------------------------------------------ SpecUpsert
\* The threads calling upsert: callers of upsert, or workers running the
\* _runner of an upsert_ff; both run upsert._write in a session of their own.
Upserters == 1..NumThreads

NotUpserting ==
    [pc |-> "idle", key |-> Null, fields |-> NoFields, absent |-> FALSE,
     s |-> Session(EmptyStore), kind |-> "unset", exc |-> "none"]

InitUpsert ==
    /\ committed = EmptyStore
    /\ upserters = [t \in Upserters |-> NotUpserting]

\* upsert._write after existing_row = session.get(...): the insert of a new row
\* when the get found none, else the update of the row it found.
upsert_rest(s1, k, fields) ==
    IF s1.st # "persistent"
    THEN ReturnRow(session_expunge(session_refresh(session_flush(
             session_add(Model(s1, row_data(k, fields))), Null))))
    ELSE ReturnRow(session_expunge(session_refresh(session_flush(
             setattr_fields(s1, fields), Null))))

\* upsert(k, a=v) is called: _run_in_session enters the session scope.
upsert_begin(t) ==
    /\ upserters[t].pc = "idle"
    /\ \E k \in Keys, v \in Vals :
         upserters' = [upserters EXCEPT ![t] =
             [NotUpserting EXCEPT !.pc = "get", !.key = k, !.fields = [id |-> Unset, a |-> v],
                                  !.absent = ~Present(committed, k)]]
    /\ UNCHANGED <<committed, otherThanUpsert>>

\* existing_row = session.get(model_class, id_value), answered from the rows
\* committed so far.
upsert_get(t) ==
    /\ upserters[t].pc = "get"
    /\ upserters' = [upserters EXCEPT
                        ![t].s = session_get(Session(committed), upserters[t].key),
                        ![t].pc = "write"]
    /\ UNCHANGED <<committed, otherThanUpsert>>

\* The calls holding a write of the key k that is flushed and not committed.
Writing(k) == {u \in Upserters : upserters[u].pc = "flushed" /\ upserters[u].key = k}

\* The rest of _write, up to its return: the INSERT or UPDATE of the flush
\* reaches the store, which makes it wait for a transaction that has written
\* the same key, and rejects the INSERT of a key a committed row holds.
upsert_flush(t) ==
    /\ upserters[t].pc = "write"
    /\ Writing(upserters[t].key) = {}
    /\ upserters' = [upserters EXCEPT
                        ![t].s = upsert_rest([upserters[t].s EXCEPT !.db = committed],
                                             upserters[t].key, upserters[t].fields),
                        ![t].pc = "flushed"]
    /\ UNCHANGED <<committed, otherThanUpsert>>

\* The session scope is left: the transaction commits on return and rolls
\* back on exception, and upsert returns the entity or raises.
upsert_end(t) ==
    /\ upserters[t].pc = "flushed"
    /\ LET k == upserters[t].key
           r == _run_in_session(committed, upserters[t].s)
       IN  /\ committed' = IF r.exc = "none" THEN [committed EXCEPT ![k] = r.db[k]]
                           ELSE committed
           /\ upserters' = [upserters EXCEPT ![t].pc = "done", ![t].kind = r.kind,
                                             ![t].exc = r.exc]
    /\ UNCHANGED otherThanUpsert

NextUpsert ==
    \/ \E t \in Upserters : upsert_begin(t)
    \/ \E t \in Upserters : upsert_get(t)
    \/ \E t \in Upserters : upsert_flush(t)
    \/ \E t \in Upserters : upsert_end(t)

\* ------------------------------------------------------------------ claims of SpecUpsert
\* C28: two upserts of one key that were both called while the key was absent
\* both return an entity, and the key then has its row.
C28_UpsertAtomic ==
    \A t, u \in Upserters :
        /\ t # u
        /\ upserters[t].pc = "done" /\ upserters[u].pc = "done"
        /\ upserters[t].key = upserters[u].key
        /\ upserters[t].absent /\ upserters[u].absent
        => /\ upserters[t].kind = "entity" /\ upserters[u].kind = "entity"
           /\ upserters[t].exc = "none" /\ upserters[u].exc = "none"
           /\ Present(committed, upserters[t].key)

\* ------------------------------------------------------------------ specifications
Init ==
    InitSeq /\ InitConc /\ InitExec /\ InitPage /\ InitAlone /\ InitRace /\ InitSubmit /\ InitClose /\ InitDict /\ InitCopy /\ InitUpsert
SpecSeq == Init /\ [][NextSeq]_vars
SpecConc == Init /\ [][NextConc]_vars
SpecExec == Init /\ [][NextExec]_vars
SpecPage == Init /\ [][NextPage]_vars
SpecAlone == Init /\ [][NextAlone]_vars
SpecRace == Init /\ [][NextRace]_vars
SpecSubmit == Init /\ [][NextSubmit]_vars
SpecClose == Init /\ [][NextClose]_vars
SpecDict == Init /\ [][NextDict]_vars
SpecCopy == Init /\ [][NextCopy]_vars
SpecUpsert == Init /\ [][NextUpsert]_vars
====
